---- MODULE Spec2Model ----
(***************************************************************************)
(* vizpath SDK: the buffered transmission Client (sdk/vizpath/client.py)   *)
(* as a state machine.  One Client object, its background flush thread and *)
(* the application threads that call send, flush and close on it.  Every   *)
(* step is one atomic operation of the code: a Queue.put, a Queue.get, an  *)
(* Event.set, a read or a write of self._client, the start of the blocking *)
(* POST and its return.                                                    *)
(*                                                                         *)
(* Second part: the decorator API (sdk/vizpath/decorators.py) with its     *)
(* context variables, and the Span object (sdk/vizpath/span.py), as the    *)
(* logical executions of an application use them.                          *)
(***************************************************************************)
EXTENDS Integers, Sequences, FiniteSets, TLC

\* ---------------------------------------------------------------- bounds
\* Number of snapshots the application hands to send.
MaxSends == 2
\* Config.buffer_size of the modelled Client (the default is 50).
BufferSize == 2
\* Number of trace contexts, and of spans, the application creates.
MaxIds == 2
\* Depth to which decorated calls nest inside one execution.
MaxDepth == 4
\* Number of operations (set_error, end, with-block entries and exits) the
\* application performs on spans it holds.
MaxOps == 3

\* ---------------------------------------------------------------- threads
Worker == "w"
Callers == {"a", "b"}
Threads == Callers \cup {Worker}
\* In the scenarios with one sending thread, the application thread that calls
\* send, and the one that calls Tracer.flush.
Sender == "a"
Flusher == "b"

\* HTTP statuses the collector may answer with.
Statuses == {200, 401, 404, 429, 500}

\* Exceptions the POST itself may raise instead of returning a response.
TransportErrors == {"httpx.ConnectError", "httpx.TimeoutException", "httpx.ReadError"}

\* What self._client.post(...) can produce: a response or an exception.
PostResults ==
    {[kind |-> "response", status |-> s] : s \in Statuses}
    \cup {[kind |-> e, status |-> 0] : e \in TransportErrors}

\* _flush has not reached the end of its try statement.
NoResult == "none"

VARIABLES
    config,      \* Client._config: [enabled, api_key] (api_key: is a key present)
    buffer,      \* Client._buffer: the Queue, head first
    shutdown,    \* Client._shutdown: the Event's flag
    client,      \* Client._client: "none" | "open" | "closed" (closed, not yet None)
    thread,      \* Client._flush_thread: "none" | "started"
    instances,   \* Client._instances: the registered clients in order of
                 \*   registration, each as the Config it was built with
    pc,          \* position of each thread in the code
    op,          \* the public call (or "loop") each thread is executing
    spans,       \* _flush's local list `spans`, per thread
    rq,          \* _flush's re-buffering loop: how many of spans are put back
    result,      \* how the try statement of the thread's flush ended (FlushHandler)
    nsent,       \* serial number of the last snapshot passed to send
    outage,      \* environment: POSTs can still fail
    accepted,    \* snapshots carried by a POST that returned success
    dropped,     \* snapshots of a batch that was discarded after a failure
    nposts,      \* history: HTTP requests issued
    overlapped,  \* history: two application threads have been inside a call at once
    concurrent,  \* history: the calls now running have overlapped
    retried,     \* history: snapshots that were re-buffered at least once
    tickPending, \* history: the queue as it was at the worker's last timer tick
    stolen,      \* history: another thread took from the queue during the
                 \*          worker's current flush
    joinTimedOut,\* history: a close() gave up waiting for the worker
    posted,      \* history: snapshots carried by a POST issued on the open transport
    rows,        \* the collector's database: the ids in its spans table and in
                 \*   its traces table
    handler      \* a VizpathCallbackHandler: _trace, _span_stack, _spans, and the
                 \*   chain runs LangChain has started and finished

\* The program's state, with the fate of every snapshot.
core == <<config, buffer, shutdown, client, thread, instances, pc, op, spans, rq,
          result, nsent, outage, accepted, dropped>>

\* History variables, the collector's database and the LangChain handler: no
\* action of the Client and of the decorators reads them.  Each is recorded
\* only in the specification whose properties speak about it, and stays as Init
\* sets it in the others.
hist == <<nposts, overlapped, concurrent, retried, tickPending, stolen, joinTimedOut,
          posted, rows, handler>>

\* ---------------------------------------------------------------- decorator state
VARIABLES
    tclient,     \* GlobalTracer._client: "none" | "client"
    live,        \* per logical execution: "no" (not started) | "thread" | "task"
    ctx,         \* per execution: the values of _current_trace and _current_span
                 \*   in its Context, [trace, span]; 0 is None
    stack,       \* per execution: the decorated calls in progress, innermost last
    tr,          \* the _TraceContext objects created so far, by id
    sp,          \* the Span objects created so far, by id
    clock,       \* datetime.now / time.perf_counter, as a logical time that an
                 \*   operation on a span held by the application advances
    nops,        \* operations performed on spans the application holds
    last,        \* history, per execution: the decorated call that completed last
    lastop       \* history: the last operation (on a span or a trace, a Config
                 \*   construction, a _handle_response call), with the object as
                 \*   it was before and, where recorded, the operations so far

deco == <<tclient, live, ctx, stack, tr, sp, clock, nops, last, lastop>>

vars == <<core, hist, deco>>

\* ---------------------------------------------------------------- helpers
Range(s) == {s[i] : i \in 1..Len(s)}

Count(s, x) == Cardinality({i \in 1..Len(s) : s[i] = x})

\* Pcs at which a thread is inside _flush.
FlushPcs == {"drain", "posting", "requeue", "flush_ret"}

\* ---------------------------------------------------------------- decorator objects
\* The logical executions of the application: "x" is running from the start;
\* "y" is started later, as a thread or as a task.
Executions == {"x", "y"}

\* What a wrapped function, or a with-block, ends with: a returned value, an
\* exception derived from Exception, or one derived from BaseException only.
NoOutcome == [kind |-> "none", val |-> "none"]
Returns == {[kind |-> "return", val |-> "result"]}
Raises == {[kind |-> "raise", val |-> v] : v \in {"ValueError", "KeyboardInterrupt"}}
Outcomes == Returns \cup Raises

\* `except Exception` catches the exception.
IsException(v) == v \in {"ValueError", "TypeError", "AttributeError", "OSError"}

\* str(e).
Str(v) ==
    CASE v = "ValueError" -> "bad value"
      [] v = "TypeError" -> "unexpected keyword argument 'project_id'"
      [] v = "KeyboardInterrupt" -> ""
      [] OTHER -> "none"

\* The keys and values of attribute maps: a map gives every key a value or
\* "absent".  k1 and k2 are keys of the application; the others are the keys
\* set_span_tokens and set_span_cost write.
AttrKeys == {"k1", "k2", "tokens.prompt", "tokens.completion", "tokens.total", "cost"}
NoAttributes == [k \in AttrKeys |-> "absent"]

\* A trace context (_TraceContext of the decorators, TraceContext of Tracer) as
\* __init__ leaves it: no span registered, no root span, no attribute, status
\* RUNNING, no end time; `inblock` says a with-block on its Trace is open.
\* `error` is attributes["error"], `attributes` holds the other keys.
NewTraceCtx(e) ==
    [owner |-> e, spans |-> <<>>, root |-> 0, error |-> "none", status |-> "running",
     ended |-> FALSE, inblock |-> FALSE,
     attributes |-> NoAttributes]

\* Mutant of _register_span: every registration replaces the root span.
_register_span_ResetsRoot(t, i) ==
    [t EXCEPT !.spans = Append(@, i), !.root = i]

\* _register_span(span) on the context t, for the span with id i.
_register_span(t, i) ==
    [t EXCEPT !.spans = Append(@, i), !.root = IF @ = 0 THEN i ELSE @]

\* SpanType, and the names the application gives its spans.
SpanTypes == {"llm", "tool", "agent", "retrieval", "chain", "custom"}
SpanNames == {"s1", "s2"}

\* Values with their Python type, as the setters receive them.  An int, a
\* string of digits, a float with and without a fractional part, and None.
PyNone == [type |-> "NoneType", val |-> "None"]
PyInt(v) == [type |-> "int", val |-> v]
PyStr(v) == [type |-> "str", val |-> v]
PyFloat(v) == [type |-> "float", val |-> v]

\* A Span as __init__ leaves it: status RUNNING, no error, no end time, no
\* duration, no attribute, no event, no input, output, tokens or cost; `sent`
\* counts the snapshots of it handed to Client.send, `inblock` says a
\* with-block on it is open.
SpanInit(e, t, p, name, type) ==
    [owner |-> e, trace |-> t, parent |-> p, name |-> name, type |-> type,
     status |-> "running", error |-> "none",
     start |-> clock, end_time |-> -1, duration |-> -1,
     attributes |-> NoAttributes, events |-> <<>>, input |-> "None", output |-> "None",
     tokens |-> PyNone, cost |-> PyNone,
     sent |-> 0, inblock |-> FALSE]

\* A span created with the default span type and a name that is not followed.
NewSpanObj(e, t, p) == SpanInit(e, t, p, "span", "custom")

\* The history before any decorated call has completed, and before any
\* operation on a span: only the field that says so.
NoCall == [kind |-> "none"]
NoOp == [op |-> "none"]

\* Number of chain runs LangChain starts.
MaxRuns == 3
RunIds == 1..MaxRuns

\* VizpathCallbackHandler.__init__: no trace, an empty span stack, an empty
\* run-id map (0: the run id is not a key); no run was started.
NewHandler ==
    [trace |-> 0, span_stack |-> <<>>, spans |-> [r \in RunIds |-> 0],
     runs |-> [r \in RunIds |-> "new"]]

\* GlobalTracer.__init__ and the module's context variables with their default.
DecoInit ==
    /\ tclient = "none"
    /\ live = [e \in Executions |-> IF e = "x" THEN "thread" ELSE "no"]
    /\ ctx = [e \in Executions |-> [trace |-> 0, span |-> 0]]
    /\ stack = [e \in Executions |-> <<>>]
    /\ tr = <<>>
    /\ sp = <<>>
    /\ clock = 0
    /\ nops = 0
    /\ last = [e \in Executions |-> NoCall]
    /\ lastop = NoOp

\* ---------------------------------------------------------------- __init__
\* Mutant of NetworkBacked: the API key is not looked at.
NetworkBacked_EnabledOnly(c) == c.enabled

\* Client.__init__: `if config.enabled and config.api_key:` initialize and register.
NetworkBacked(c) == c.enabled /\ c.api_key

Configs == [enabled : BOOLEAN, api_key : BOOLEAN]

\* The state right after Client(config): _initialize created the transport and
\* started the flush thread only for a network-backed client.
ClientInit(c) ==
    /\ config = c
    /\ buffer = <<>>
    /\ shutdown = FALSE
    /\ client = IF NetworkBacked(c) THEN "open" ELSE "none"
    /\ thread = IF NetworkBacked(c) THEN "started" ELSE "none"
    /\ instances = IF NetworkBacked(c) THEN <<c>> ELSE <<>>
    /\ pc = [t \in Threads |->
               IF t = Worker THEN (IF NetworkBacked(c) THEN "w_wait" ELSE "w_none")
               ELSE "idle"]
    /\ op = [t \in Threads |-> IF t = Worker /\ NetworkBacked(c) THEN "loop" ELSE "none"]
    /\ spans = [t \in Threads |-> <<>>]
    /\ rq = [t \in Threads |-> 0]
    /\ result = [t \in Threads |-> NoResult]
    /\ nsent = 0
    /\ outage = TRUE
    /\ accepted = {}
    /\ dropped = {}
    /\ nposts = 0
    /\ posted = {}
    /\ overlapped = FALSE
    /\ concurrent = FALSE
    /\ retried = {}
    /\ tickPending = <<>>
    /\ stolen = FALSE
    /\ joinTimedOut = FALSE
    /\ rows = [spans |-> {}, traces |-> {}]
    /\ handler = NewHandler
    /\ DecoInit

Init == \E c \in Configs : ClientInit(c)

\* ---------------------------------------------------------------- exceptions
\* vizpath/exceptions.py: every SDK exception derives from VizpathError.
VizpathErrors ==
    {"VizpathError", "ConfigurationError", "ConnectionError", "AuthenticationError",
     "RateLimitError", "TimeoutError"}

\* httpx.Response.is_success: a 2xx status.
is_success(status) == status >= 200 /\ status <= 299

\* Mutant of _handle_response: the test for 429 is missing.
_handle_response_No429(status) ==
    IF status = 401 THEN "AuthenticationError"
    ELSE IF status >= 500 THEN "ConnectionError"
    ELSE IF ~is_success(status) THEN "VizpathError"
    ELSE "none"

\* Client._handle_response: the exception it raises for a status, "none" for none.
_handle_response(status) ==
    IF status = 401 THEN "AuthenticationError"
    ELSE IF status = 429 THEN "RateLimitError"
    ELSE IF status >= 500 THEN "ConnectionError"
    ELSE IF ~is_success(status) THEN "VizpathError"
    ELSE "none"

\* Mutant of FlushHandler: the `except httpx.TimeoutException` clause is
\* missing, so that a timeout falls to the last clause and the batch is dropped.
FlushHandler_TimeoutDrops(e) ==
    IF e = "none" THEN "flushed"
    ELSE IF e = "httpx.ConnectError" THEN "rebuffer"
    ELSE IF e \in VizpathErrors THEN "api_error"
    ELSE "unexpected"

\* Mutant of FlushHandler: the final `except Exception` clause is missing.
FlushHandler_NoCatchAll(e) ==
    IF e = "none" THEN "flushed"
    ELSE IF e \in {"httpx.ConnectError", "httpx.TimeoutException"} THEN "rebuffer"
    ELSE IF e \in VizpathErrors THEN "api_error"
    ELSE "propagate"

\* The except clauses of _flush, in source order: which one handles exception e.
\* Every exception the try block can raise derives from Exception, so the last
\* clause takes whatever the first three do not.
FlushHandler(e) ==
    IF e = "none" THEN "flushed"
    ELSE IF e = "httpx.ConnectError" THEN "rebuffer"
    ELSE IF e = "httpx.TimeoutException" THEN "rebuffer"
    ELSE IF e \in VizpathErrors THEN "api_error"
    ELSE "unexpected"

\* The exception a POST result turns into inside the try block.
Raised(r) == IF r.kind = "response" THEN _handle_response(r.status) ELSE r.kind

\* The application's payloads: all have a JSON form, or some may not.
JsonPayload == {TRUE}
AnyPayload == BOOLEAN

\* Results of a POST that completed: the environment's choice.
OkResults == {r \in PostResults : Raised(r) = "none"}

\* The failures of a transient outage: the connection cannot be made, or the
\* request times out.
TransientFailures ==
    {r \in PostResults : r.kind \in {"httpx.ConnectError", "httpx.TimeoutException"}}

\* ---------------------------------------------------------------- _flush
\* Mutant of AfterTry: the `except VizpathError` clause re-buffers the batch as
\* the connect-error clause does.
AfterTry_ApiErrorRebuffers(t, e) ==
    LET h == FlushHandler(e) IN
    /\ result' = [result EXCEPT ![t] = h]
    /\ accepted' = IF h = "flushed" THEN accepted \cup Range(spans[t]) ELSE accepted
    /\ dropped' = IF h = "unexpected" THEN dropped \cup Range(spans[t]) ELSE dropped
    /\ rq' = [rq EXCEPT ![t] = 0]
    /\ pc' = [pc EXCEPT ![t] =
                 CASE h \in {"rebuffer", "api_error"} -> "requeue"
                   [] h \in {"flushed", "unexpected"} -> "flush_ret"
                   [] OTHER -> "flush_raised"]

\* Mutant of AfterTry: the last `except Exception` clause puts the batch back
\* as the connect-error clause does.
AfterTry_UnexpectedRebuffers(t, e) ==
    LET h == FlushHandler(e) IN
    /\ result' = [result EXCEPT ![t] = h]
    /\ accepted' = IF h = "flushed" THEN accepted \cup Range(spans[t]) ELSE accepted
    /\ dropped' = IF h = "api_error" THEN dropped \cup Range(spans[t]) ELSE dropped
    /\ rq' = [rq EXCEPT ![t] = 0]
    /\ pc' = [pc EXCEPT ![t] =
                 CASE h \in {"rebuffer", "unexpected"} -> "requeue"
                   [] h \in {"flushed", "api_error"} -> "flush_ret"
                   [] OTHER -> "flush_raised"]

\* What _flush does once the try block ended with exception e ("none": no
\* exception) holding the batch spans[t].
AfterTry(t, e) ==
    LET h == FlushHandler(e) IN
    /\ result' = [result EXCEPT ![t] = h]
    /\ accepted' = IF h = "flushed" THEN accepted \cup Range(spans[t]) ELSE accepted
    /\ dropped' = IF h \in {"api_error", "unexpected"}
                  THEN dropped \cup Range(spans[t]) ELSE dropped
    /\ rq' = [rq EXCEPT ![t] = 0]
    /\ pc' = [pc EXCEPT ![t] =
                 CASE h = "rebuffer" -> "requeue"
                   [] h \in {"flushed", "api_error", "unexpected"} -> "flush_ret"
                   [] OTHER -> "flush_raised"]

\* Mutant of FlushEnter: a flush is skipped unless the queue is full.
FlushEnter_OnlyWhenFull(t) ==
    /\ pc' = [pc EXCEPT ![t] = IF client = "none" \/ Len(buffer) < BufferSize
                               THEN "flush_ret" ELSE "drain"]
    /\ spans' = [spans EXCEPT ![t] = <<>>]

\* Mutant of FlushEnter: the test of self._client is missing.
FlushEnter_NoClientTest(t) ==
    /\ pc' = [pc EXCEPT ![t] = "drain"]
    /\ spans' = [spans EXCEPT ![t] = <<>>]

\* Thread t calls _flush: `if not self._client: return`, else `spans = []` and
\* the drain begins.  The read of self._client is taken in one step with the
\* read that made the caller flush (the queue size, the worker's state, the
\* shutdown flag): only close() writes self._client, and it writes none of those.
FlushEnter(t) ==
    /\ pc' = [pc EXCEPT ![t] = IF client = "none" THEN "flush_ret" ELSE "drain"]
    /\ spans' = [spans EXCEPT ![t] = <<>>]

\* Mutant of Drain: the queue is read without its mutex, so that two threads
\* draining at once both take the same head.
Drain_Unlocked(t) ==
    /\ pc[t] = "drain"
    /\ buffer # <<>>
    /\ spans' = [spans EXCEPT ![t] = Append(spans[t], Head(buffer))]
    /\ buffer' = IF \E u \in Threads \ {t} : pc[u] = "drain" /\ spans[u] = <<>>
                 THEN buffer ELSE Tail(buffer)
    /\ UNCHANGED <<deco, config, shutdown, client, thread, instances, pc, op, rq, result,
                   nsent, outage, accepted, dropped>>

\* Mutant of Drain: the head of the queue is read and left in the queue.
Drain_Peeks(t) ==
    /\ pc[t] = "drain"
    /\ buffer # <<>>
    /\ Len(spans[t]) < MaxSends
    /\ spans' = [spans EXCEPT ![t] = Append(spans[t], Head(buffer))]
    /\ UNCHANGED <<deco, config, buffer, shutdown, client, thread, instances, pc, op, rq,
                   result, nsent, outage, accepted, dropped>>

\* One `spans.append(self._buffer.get_nowait())` that finds an item.
Drain(t) ==
    /\ pc[t] = "drain"
    /\ buffer # <<>>
    /\ spans' = [spans EXCEPT ![t] = Append(spans[t], Head(buffer))]
    /\ buffer' = Tail(buffer)
    /\ UNCHANGED <<deco, config, shutdown, client, thread, instances, pc, op, rq, result,
                   nsent, outage, accepted, dropped>>

\* The try block up to the call of post: the payload is serialized (which
\* raises for a value that has no JSON form; Payloads says whether the
\* application's values can be such) and self._client is read again: it is None
\* after a close() (AttributeError), a closed transport refuses the request
\* (RuntimeError), an open one sends it and the thread blocks.
PostStart(t, Payloads) ==
    \E serializes \in Payloads :
        IF ~serializes
        THEN AfterTry(t, "TypeError")
        ELSE IF client = "none"
        THEN AfterTry(t, "AttributeError")
        ELSE IF client = "closed"
        THEN AfterTry(t, "RuntimeError")
        ELSE /\ pc' = [pc EXCEPT ![t] = "posting"]
             /\ UNCHANGED <<result, accepted, dropped, rq>>

\* get_nowait raises Empty: the drain ends; `if not spans: return`, else the try
\* block starts (taken in the same step: it reads self._client, not the queue).
DrainEmpty(t, Payloads) ==
    /\ pc[t] = "drain"
    /\ buffer = <<>>
    /\ IF spans[t] = <<>>
       THEN /\ pc' = [pc EXCEPT ![t] = "flush_ret"]
            /\ UNCHANGED <<result, accepted, dropped, rq>>
       ELSE PostStart(t, Payloads)
    /\ UNCHANGED <<deco, config, buffer, shutdown, client, thread, instances, op, spans,
                   nsent, outage>>

\* What a request in flight can end with.  Results is what the collector and
\* the network answer while the outage lasts; after it every request succeeds.
\* A transport that close() released under the request can fail it in any way.
Answers(Results) ==
    (IF outage THEN Results ELSE Results \cap OkResults)
    \cup (IF client = "open" THEN {} ELSE
            {[kind |-> e, status |-> 0] : e \in TransportErrors})

\* post returns a response or raises; _handle_response, then the except clauses.
PostReturn(t, Results) ==
    /\ pc[t] = "posting"
    /\ \E r \in Answers(Results) : AfterTry(t, Raised(r))
    /\ UNCHANGED <<deco, config, buffer, shutdown, client, thread, instances, op, spans,
                   nsent, outage>>

\* Mutant of Requeue: only the first snapshot of the batch is put back.
Requeue_FirstOnly(t) ==
    /\ pc[t] = "requeue"
    /\ rq[t] < Len(spans[t])
    /\ buffer' = Append(buffer, spans[t][rq[t] + 1])
    /\ rq' = [rq EXCEPT ![t] = Len(spans[t])]
    /\ pc' = [pc EXCEPT ![t] = "flush_ret"]
    /\ UNCHANGED <<deco, config, shutdown, client, thread, instances, op, spans, result,
                   nsent, outage, accepted, dropped>>

\* One `self._buffer.put(span)` of a re-buffering loop; after the last the
\* handler ends and _flush returns.
Requeue(t) ==
    /\ pc[t] = "requeue"
    /\ rq[t] < Len(spans[t])
    /\ buffer' = Append(buffer, spans[t][rq[t] + 1])
    /\ rq' = [rq EXCEPT ![t] = rq[t] + 1]
    /\ pc' = [pc EXCEPT ![t] = IF rq[t] + 1 = Len(spans[t]) THEN "flush_ret" ELSE "requeue"]
    /\ UNCHANGED <<deco, config, shutdown, client, thread, instances, op, spans, result,
                   nsent, outage, accepted, dropped>>

\* _flush returns to the code that called it: send and Tracer.flush return to the
\* application, close goes on to release the transport, the loop waits again.
FlushRet(t) ==
    /\ pc[t] = "flush_ret"
    /\ pc' = [pc EXCEPT ![t] =
                 CASE op[t] = "close" -> "close_check"
                   [] op[t] = "loop" -> "w_wait"
                   [] OTHER -> "idle"]
    /\ op' = [op EXCEPT ![t] = IF op[t] \in {"close", "loop"} THEN op[t] ELSE "none"]
    /\ spans' = [spans EXCEPT ![t] = <<>>]
    /\ rq' = [rq EXCEPT ![t] = 0]
    /\ result' = [result EXCEPT ![t] = NoResult]
    /\ UNCHANGED <<deco, config, buffer, shutdown, client, thread, instances, nsent, outage,
                   accepted, dropped>>

\* ---------------------------------------------------------------- send
\* send up to the put: `if not enabled: return`, then `self._buffer.put(span)`.
Send(t) ==
    /\ pc[t] = "idle"
    /\ nsent < MaxSends
    /\ nsent' = nsent + 1
    /\ IF ~config.enabled
       THEN UNCHANGED <<buffer, pc, op>>
       ELSE /\ buffer' = Append(buffer, nsent + 1)
            /\ pc' = [pc EXCEPT ![t] = "send_check"]
            /\ op' = [op EXCEPT ![t] = "send"]
    /\ UNCHANGED <<deco, config, shutdown, client, thread, instances, spans, rq, result,
                   outage, accepted, dropped>>

\* Mutant of SendCheck: `>` for `>=`.
SendCheck_Greater(t) ==
    /\ pc[t] = "send_check"
    /\ IF Len(buffer) > BufferSize
       THEN /\ FlushEnter(t)
            /\ UNCHANGED op
       ELSE /\ pc' = [pc EXCEPT ![t] = "idle"]
            /\ op' = [op EXCEPT ![t] = "none"]
            /\ UNCHANGED spans
    /\ UNCHANGED <<deco, config, buffer, shutdown, client, thread, instances, rq,
                   result, nsent, outage, accepted, dropped>>

\* `if self._buffer.qsize() >= self._config.buffer_size: self._flush()`:
\* the flush is a plain call, it runs on the thread that called send.
SendCheck(t) ==
    /\ pc[t] = "send_check"
    /\ IF Len(buffer) >= BufferSize
       THEN /\ FlushEnter(t)
            /\ UNCHANGED op
       ELSE /\ pc' = [pc EXCEPT ![t] = "idle"]
            /\ op' = [op EXCEPT ![t] = "none"]
            /\ UNCHANGED spans
    /\ UNCHANGED <<deco, config, buffer, shutdown, client, thread, instances, rq,
                   result, nsent, outage, accepted, dropped>>

\* Tracer.flush: `self._client._flush()`.
FlushCall(t) ==
    /\ pc[t] = "idle"
    /\ FlushEnter(t)
    /\ op' = [op EXCEPT ![t] = "flush"]
    /\ UNCHANGED <<deco, config, buffer, shutdown, client, thread, instances, rq,
                   result, nsent, outage, accepted, dropped>>

\* ---------------------------------------------------------------- _flush_loop
\* `self._shutdown.wait(flush_interval)` times out with the flag clear: flush.
WorkerTick ==
    /\ pc[Worker] = "w_wait"
    /\ ~shutdown
    /\ FlushEnter(Worker)
    /\ UNCHANGED <<deco, config, buffer, shutdown, client, thread, instances, op, rq,
                   result, nsent, outage, accepted, dropped>>

\* wait returns True (the flag is set): the loop ends without a flush.
WorkerExit ==
    /\ pc[Worker] = "w_wait"
    /\ shutdown
    /\ pc' = [pc EXCEPT ![Worker] = "w_done"]
    /\ op' = [op EXCEPT ![Worker] = "none"]
    /\ UNCHANGED <<deco, config, buffer, shutdown, client, thread, instances, spans, rq,
                   result, nsent, outage, accepted, dropped>>

\* ---------------------------------------------------------------- close
\* `self._shutdown.set()`.
Close(t) ==
    /\ pc[t] = "idle"
    /\ shutdown' = TRUE
    /\ pc' = [pc EXCEPT ![t] = "close_join"]
    /\ op' = [op EXCEPT ![t] = "close"]
    /\ UNCHANGED <<deco, config, buffer, client, thread, instances, spans, rq, result, nsent,
                   outage, accepted, dropped>>

\* Thread.is_alive() of the flush thread.
WorkerAlive == thread = "started" /\ pc[Worker] # "w_done"

\* Mutant of CloseJoin: close does not flush after the join.
CloseJoin_NoFinalFlush(t) ==
    /\ pc[t] = "close_join"
    /\ WorkerAlive => pc[Worker] = "posting"
    /\ pc' = [pc EXCEPT ![t] = "close_check"]
    /\ UNCHANGED <<deco, config, buffer, shutdown, client, thread, instances, op, spans, rq,
                   result, nsent, outage, accepted, dropped>>

\* `if self._flush_thread and self._flush_thread.is_alive(): join(timeout=2.0)`,
\* then `self._flush()`.  join returns when the worker has ended, or after 2
\* seconds: a worker woken from its wait ends at once, so the timeout can only
\* pass while the worker is blocked in a POST (Config.timeout is 30 seconds).
CloseJoin(t) ==
    /\ pc[t] = "close_join"
    /\ WorkerAlive => pc[Worker] = "posting"
    /\ FlushEnter(t)
    /\ UNCHANGED <<deco, config, buffer, shutdown, client, thread, instances, op, rq,
                   result, nsent, outage, accepted, dropped>>

\* Mutant of CloseCheck: the transport is closed without the test of
\* self._client.
CloseCheck_NoClientTest(t) ==
    /\ pc[t] = "close_check"
    /\ pc' = [pc EXCEPT ![t] = "close_close"]
    /\ UNCHANGED <<deco, config, buffer, shutdown, client, thread, instances, op, spans, rq,
                   result, nsent, outage, accepted, dropped>>

\* After the final flush: `if self._client:`.
CloseCheck(t) ==
    /\ pc[t] = "close_check"
    /\ IF client # "none"
       THEN /\ pc' = [pc EXCEPT ![t] = "close_close"]
            /\ UNCHANGED op
       ELSE /\ pc' = [pc EXCEPT ![t] = "idle"]
            /\ op' = [op EXCEPT ![t] = "none"]
    /\ UNCHANGED <<deco, config, buffer, shutdown, client, thread, instances, spans, rq,
                   result, nsent, outage, accepted, dropped>>

\* `self._client.close()`: the attribute is read again, and is None when another
\* close() cleared it since the check.
CloseTransport(t) ==
    /\ pc[t] = "close_close"
    /\ IF client = "none"
       THEN /\ pc' = [pc EXCEPT ![t] = "close_raised"]
            /\ UNCHANGED client
       ELSE /\ pc' = [pc EXCEPT ![t] = "close_clear"]
            /\ client' = "closed"
    /\ UNCHANGED <<deco, config, buffer, shutdown, thread, instances, op, spans, rq, result,
                   nsent, outage, accepted, dropped>>

\* `self._client = None`, and close returns.
CloseClear(t) ==
    /\ pc[t] = "close_clear"
    /\ client' = "none"
    /\ pc' = [pc EXCEPT ![t] = "idle"]
    /\ op' = [op EXCEPT ![t] = "none"]
    /\ UNCHANGED <<deco, config, buffer, shutdown, thread, instances, spans, rq, result,
                   nsent, outage, accepted, dropped>>

\* An exception leaves the public call (or ends the worker thread).
Unwind(t) ==
    /\ pc[t] \in {"flush_raised", "close_raised"}
    /\ pc' = [pc EXCEPT ![t] = IF t = Worker THEN "w_done" ELSE "idle"]
    /\ op' = [op EXCEPT ![t] = "none"]
    /\ spans' = [spans EXCEPT ![t] = <<>>]
    /\ rq' = [rq EXCEPT ![t] = 0]
    /\ result' = [result EXCEPT ![t] = NoResult]
    /\ UNCHANGED <<deco, config, buffer, shutdown, client, thread, instances, nsent, outage,
                   accepted, dropped>>

\* ---------------------------------------------------------------- specification
\* Every operation of the Client, on every thread, under every interleaving.
Next ==
    \/ \E t \in Callers : Send(t) /\ UNCHANGED hist
    \/ \E t \in Callers : SendCheck(t) /\ UNCHANGED hist
    \/ \E t \in Callers : FlushCall(t) /\ UNCHANGED hist
    \/ \E t \in Callers : Close(t) /\ UNCHANGED hist
    \/ \E t \in Callers : CloseJoin(t) /\ UNCHANGED hist
    \/ \E t \in Callers : CloseCheck(t) /\ UNCHANGED hist
    \/ \E t \in Callers : CloseTransport(t) /\ UNCHANGED hist
    \/ \E t \in Callers : CloseClear(t) /\ UNCHANGED hist
    \/ \E t \in Threads : Unwind(t) /\ UNCHANGED hist
    \/ \E t \in Threads : Drain(t) /\ UNCHANGED hist
    \/ \E t \in Threads : DrainEmpty(t, AnyPayload) /\ UNCHANGED hist
    \/ \E t \in Threads : PostReturn(t, PostResults) /\ UNCHANGED hist
    \/ \E t \in Threads : Requeue(t) /\ UNCHANGED hist
    \/ \E t \in Threads : FlushRet(t) /\ UNCHANGED hist
    \/ WorkerTick /\ UNCHANGED hist
    \/ WorkerExit /\ UNCHANGED hist

Spec == Init /\ [][Next]_vars

\* ---------------------------------------------------------------- history
\* A call starts on thread t: does it overlap a call of another thread.
Busy(t) == \E u \in Callers \ {t} : pc[u] # "idle"

\* Whether the step issued a request on thread t.
Issued(t) == pc[t] # "posting" /\ pc'[t] = "posting"

\* After a step of thread t: the running calls have overlapped if they had
\* before, or t has just started a call while another thread was in one; the
\* record is cleared when no call is running any more.
Overlap(t) ==
    concurrent' = IF \A u \in Callers : pc'[u] = "idle" THEN FALSE
                  ELSE (concurrent \/ (pc[t] = "idle" /\ Busy(t)))

\* The state after Client(config) for a config with a key and enabled = true.
InitNetworkBacked == ClientInit([enabled |-> TRUE, api_key |-> TRUE])

\* ---------------------------------------------------------------- sends only
\* Application threads call send on a network-backed client; the worker's
\* timer never fires and nobody flushes or closes; every payload has a JSON form.
NextSends ==
    \/ \E t \in Callers :
          /\ Send(t)
          /\ overlapped' = (overlapped \/ Busy(t))
          /\ UNCHANGED <<handler, rows, nposts, concurrent, retried, tickPending, stolen,
                         joinTimedOut, posted>>
    \/ \E t \in Callers : SendCheck(t) /\ UNCHANGED hist
    \/ \E t \in Callers : Drain(t) /\ UNCHANGED hist
    \/ \E t \in Callers :
          /\ DrainEmpty(t, JsonPayload)
          /\ nposts' = IF Issued(t) THEN nposts + 1 ELSE nposts
          /\ UNCHANGED <<handler, rows, overlapped, concurrent, retried, tickPending, stolen,
                         joinTimedOut, posted>>
    \/ \E t \in Callers : PostReturn(t, PostResults) /\ UNCHANGED hist
    \/ \E t \in Callers : Requeue(t) /\ UNCHANGED hist
    \/ \E t \in Callers : FlushRet(t) /\ UNCHANGED hist

SpecSends == InitNetworkBacked /\ [][NextSends]_vars

\* ---------------------------------------------------------------- timer
\* A network-backed client that is never closed: one application thread sends,
\* another calls Tracer.flush, the worker's timer fires; a request is accepted
\* or fails with a connect error or a timeout; every payload has a JSON form.
NextTimer ==
    \/ \E t \in {Sender} : Send(t) /\ UNCHANGED hist
    \/ \E t \in Callers : SendCheck(t) /\ UNCHANGED hist
    \/ \E t \in {Flusher} : FlushCall(t) /\ UNCHANGED hist
    \/ \E t \in Threads :
          /\ Drain(t)
          /\ stolen' = (stolen \/ (t # Worker /\ pc[Worker] \in FlushPcs))
          /\ UNCHANGED <<handler, rows, nposts, overlapped, concurrent, retried, tickPending,
                         joinTimedOut, posted>>
    \/ \E t \in Threads : DrainEmpty(t, JsonPayload) /\ UNCHANGED hist
    \/ \E t \in Threads : PostReturn(t, OkResults \cup TransientFailures) /\ UNCHANGED hist
    \/ \E t \in Threads : Requeue(t) /\ UNCHANGED hist
    \/ \E t \in Threads :
          /\ FlushRet(t)
          /\ tickPending' = IF t = Worker THEN <<>> ELSE tickPending
          /\ stolen' = IF t = Worker THEN FALSE ELSE stolen
          /\ UNCHANGED <<handler, rows, nposts, overlapped, concurrent, retried, joinTimedOut, posted>>
    \/ /\ WorkerTick
       /\ tickPending' = buffer
       /\ stolen' = FALSE
       /\ UNCHANGED <<handler, rows, nposts, overlapped, concurrent, retried, joinTimedOut, posted>>

SpecTimer == InitNetworkBacked /\ [][NextTimer]_vars

\* ---------------------------------------------------------------- accepting collector
\* A network-backed client whose collector answers every request with success;
\* every operation on every thread; every payload has a JSON form.
NextAccepting ==
    \/ \E t \in Callers : Send(t) /\ Overlap(t)
          /\ UNCHANGED <<handler, rows, nposts, overlapped, retried, tickPending, stolen,
                         joinTimedOut, posted>>
    \/ \E t \in Callers : SendCheck(t) /\ Overlap(t)
          /\ UNCHANGED <<handler, rows, nposts, overlapped, retried, tickPending, stolen,
                         joinTimedOut, posted>>
    \/ \E t \in Callers : FlushCall(t) /\ Overlap(t)
          /\ UNCHANGED <<handler, rows, nposts, overlapped, retried, tickPending, stolen,
                         joinTimedOut, posted>>
    \/ \E t \in Callers : Close(t) /\ Overlap(t)
          /\ UNCHANGED <<handler, rows, nposts, overlapped, retried, tickPending, stolen,
                         joinTimedOut, posted>>
    \/ \E t \in Callers : CloseJoin(t)
          /\ joinTimedOut' = (joinTimedOut \/ WorkerAlive)
          /\ UNCHANGED <<handler, rows, nposts, overlapped, concurrent, retried, tickPending, stolen,
                         posted>>
    \/ \E t \in Callers : CloseCheck(t) /\ Overlap(t)
          /\ UNCHANGED <<handler, rows, nposts, overlapped, retried, tickPending, stolen,
                         joinTimedOut, posted>>
    \/ \E t \in Callers : CloseTransport(t) /\ UNCHANGED hist
    \/ \E t \in Callers : CloseClear(t) /\ Overlap(t)
          /\ UNCHANGED <<handler, rows, nposts, overlapped, retried, tickPending, stolen,
                         joinTimedOut, posted>>
    \/ \E t \in Threads : Unwind(t) /\ Overlap(t)
          /\ UNCHANGED <<handler, rows, nposts, overlapped, retried, tickPending, stolen,
                         joinTimedOut, posted>>
    \/ \E t \in Threads : Drain(t) /\ UNCHANGED hist
    \/ \E t \in Threads :
          /\ DrainEmpty(t, JsonPayload)
          /\ posted' = IF Issued(t) THEN posted \cup Range(spans[t]) ELSE posted
          /\ UNCHANGED <<handler, rows, nposts, overlapped, concurrent, retried, tickPending, stolen,
                         joinTimedOut>>
    \/ \E t \in Threads : PostReturn(t, OkResults) /\ UNCHANGED hist
    \/ \E t \in Threads : Requeue(t) /\ UNCHANGED hist
    \/ \E t \in Threads : FlushRet(t) /\ Overlap(t)
          /\ UNCHANGED <<handler, rows, nposts, overlapped, retried, tickPending, stolen,
                         joinTimedOut, posted>>
    \/ WorkerTick /\ UNCHANGED hist
    \/ WorkerExit /\ UNCHANGED hist

SpecAccepting == InitNetworkBacked /\ [][NextAccepting]_vars

\* ---------------------------------------------------------------- where snapshots are
\* The snapshots thread t has taken from the queue and not handed on: its batch
\* while it drains and posts, the part not yet put back while it re-buffers.
Held(t) ==
    IF pc[t] \in {"drain", "posting", "requeue", "flush_raised"}
    THEN {spans[t][i] : i \in (rq[t] + 1)..Len(spans[t])}
    ELSE {}

\* In how many places snapshot s is: queue entries, batches, accepted, dropped.
Places(s) ==
    Count(buffer, s)
    + Cardinality({t \in Threads : s \in Held(t)})
    + (IF s \in accepted THEN 1 ELSE 0)
    + (IF s \in dropped THEN 1 ELSE 0)

\* _flush on thread t is about to return, having ended its try statement by h.
FlushReturns(t, h) == pc[t] = "flush_ret" /\ result[t] = h

\* A POST that fails with a connect error or a timeout is handled by one of the
\* two clauses that put the batch back.
TransientFailuresRebuffer ==
    \A r \in PostResults :
        r.kind \in {"httpx.ConnectError", "httpx.TimeoutException"}
            => FlushHandler(Raised(r)) = "rebuffer"

\* A response whose status is not 2xx is handled by `except VizpathError`.
StatusFailuresAreApiErrors ==
    \A r \in PostResults :
        (r.kind = "response" /\ ~(r.status >= 200 /\ r.status <= 299))
            => FlushHandler(Raised(r)) = "api_error"

\* ---------------------------------------------------------------- C1
\* C1 as stated: when the POST of a flush failed with a connect error or a
\* timeout, every snapshot the flush drained is in the queue, exactly once, when
\* the flush returns.
C1_AllBackInQueue ==
    /\ TransientFailuresRebuffer
    /\ \A t \in Threads : FlushReturns(t, "rebuffer") =>
          \A i \in 1..Len(spans[t]) : Count(buffer, spans[t][i]) = 1

\* C1 amended: when the POST of a flush failed with a connect error or a
\* timeout, the flush has put every snapshot it drained back into the queue
\* exactly once when it returns; each is then in the queue unless another flush
\* has drained it again since (it is in exactly one place: the queue, the other
\* flush's batch, or what that flush delivered or discarded).
C1_RebufferedOnce ==
    /\ TransientFailuresRebuffer
    /\ \A t \in Threads : FlushReturns(t, "rebuffer") =>
          /\ rq[t] = Len(spans[t])
          /\ \A i \in 1..Len(spans[t]) :
                /\ Count(spans[t], spans[t][i]) = 1
                /\ Count(buffer, spans[t][i]) <= 1
                /\ Places(spans[t][i]) = 1

\* A flush returns after a connect error or a timeout with a batch of two.
C1_Witness ==
    \E t \in Threads : FlushReturns(t, "rebuffer") /\ Len(spans[t]) >= 2

\* ---------------------------------------------------------------- C2
\* C2: when the collector answers 401, 429, a status >= 500 or another non-2xx
\* status, no snapshot of the batch is put back: at the return of the flush the
\* batch is discarded and none of it is in the queue.
C2_ApiFailureDropsBatch ==
    /\ StatusFailuresAreApiErrors
    /\ \A t \in Threads : FlushReturns(t, "api_error") =>
          \A i \in 1..Len(spans[t]) :
              /\ Count(buffer, spans[t][i]) = 0
              /\ spans[t][i] \in dropped
              /\ \A u \in Threads : spans[t][i] \notin Held(u)

\* A flush returns after a status failure, with a later snapshot in the queue.
C2_Witness ==
    \E t \in Threads :
        /\ FlushReturns(t, "api_error")
        /\ spans[t] # <<>>
        /\ buffer # <<>>

\* ---------------------------------------------------------------- C3
\* C3: whatever the POST of a flush produces (a response of any status, a
\* transport error) and whatever the try block raises before it, the exception
\* is handled inside _flush: it never leaves send, flush, close or the worker.
C3_NoErrorPropagates ==
    \A t \in Threads : pc[t] # "flush_raised"

\* A send's own flush has failed with an error that is neither a connect error,
\* a timeout nor a status failure, and is returning to the application.
C3_Witness ==
    \E t \in Callers : op[t] = "send" /\ FlushReturns(t, "unexpected")

\* ---------------------------------------------------------------- C4
\* C4 as stated: the blocking POST never runs on a thread that is inside send.
C4_SendNeverBlocksOnPost ==
    \A t \in Threads : pc[t] = "posting" => op[t] # "send"

C10_InertClient ==
    ~(config.enabled /\ config.api_key) =>
        /\ thread = "none"
        /\ pc[Worker] = "w_none"
        /\ client = "none"
        /\ instances = <<>>
        /\ accepted = {}
        /\ \A t \in Threads :
              pc[t] \notin {"drain", "posting", "requeue", "flush_raised", "close_raised"}

\* An enabled client without a key after sends that reached buffer_size and a
\* close that returned.
C10_Witness ==
    /\ config.enabled
    /\ ~config.api_key
    /\ Len(buffer) >= BufferSize
    /\ shutdown
    /\ \A t \in Callers : pc[t] = "idle"

\* ---------------------------------------------------------------- C5
\* What C5 says of the first buffer_size sends: fewer sends issue no request;
\* with the send that makes buffer_size, a request carries all buffer_size
\* snapshots, there is at most one, and there is one once the sends returned.
FirstBatch ==
    /\ nsent < BufferSize => nposts = 0
    /\ nsent = BufferSize =>
          /\ nposts <= 1
          /\ \A t \in Threads : pc[t] = "posting" => Range(spans[t]) = 1..BufferSize
          /\ (\A t \in Callers : pc[t] = "idle") => nposts = 1

TimerFlushReturns ==
    /\ pc[Worker] = "flush_ret"
    /\ Len(tickPending) >= 1
    /\ Len(tickPending) < BufferSize

\* The worker's flush reached its POST (the end of its try statement) with a
\* batch holding every snapshot that was pending at the tick.
TimerFlushPostedAll ==
    /\ result[Worker] # "none"
    /\ Range(tickPending) \subseteq Range(spans[Worker])

CloseReturnsAlone(t) == pc[t] = "close_clear" /\ ~concurrent

\* What C7 promises at the return of close().
ClosedClean ==
    /\ shutdown
    /\ pc[Worker] = "w_done"
    /\ buffer = <<>>
    /\ 1..nsent \subseteq posted

OutageEnds ==
    /\ outage
    /\ outage' = FALSE
    /\ UNCHANGED <<deco, config, buffer, shutdown, client, thread, instances, pc, op, spans,
                   rq, result, nsent, accepted, dropped>>

\* The steps of thread t inside send and _flush once it has enqueued, with the
\* snapshots it re-buffers recorded in `retried`.
LiveStep(t) ==
    \/ SendCheck(t) /\ UNCHANGED hist
    \/ Drain(t) /\ UNCHANGED hist
    \/ DrainEmpty(t, JsonPayload) /\ UNCHANGED hist
    \/ PostReturn(t, OkResults \cup TransientFailures) /\ UNCHANGED hist
    \/ /\ Requeue(t)
       /\ retried' = retried \cup {spans[t][rq[t] + 1]}
       /\ UNCHANGED <<handler, rows, nposts, overlapped, concurrent, tickPending, stolen,
                      joinTimedOut, posted>>
    \/ FlushRet(t) /\ UNCHANGED hist

\* An open network-backed client during an outage that ends: an application
\* thread sends (and flushes when the queue reaches buffer_size), the worker's
\* timer fires, requests fail with connect errors and timeouts until the outage
\* is over.
NextLive ==
    \/ \E t \in {Sender} : Send(t) /\ UNCHANGED hist
    \/ \E t \in Threads : LiveStep(t)
    \/ WorkerTick /\ UNCHANGED hist
    \/ OutageEnds /\ UNCHANGED hist

\* Fairness: a thread that can take its next step takes it (the scheduler runs
\* every thread, a request ends), the timer of the worker keeps firing, and the
\* outage ends.  Nothing obliges the application to send.
LiveSpec ==
    /\ InitNetworkBacked
    /\ [][NextLive]_vars
    /\ \A t \in Threads : WF_vars(LiveStep(t))
    /\ WF_vars(WorkerTick /\ UNCHANGED hist)
    /\ WF_vars(OutageEnds /\ UNCHANGED hist)

set_error_StampsEnd(s, msg) ==
    [s EXCEPT !.error = msg, !.status = "error", !.end_time = clock]

\* Span.set_error(error) on the span object s.
set_error(s, msg) == [s EXCEPT !.error = msg, !.status = "error"]

\* Span.set_input(value), Span.set_output(value).
set_input(s, value) == [s EXCEPT !.input = value]
set_output(s, value) == [s EXCEPT !.output = value]

\* Span.set_attributes(**kwargs): dict.update, a key given again takes the new
\* value, the other keys stay.
set_attributes(s, kwargs) ==
    [s EXCEPT !.attributes =
        [k \in AttrKeys |-> IF kwargs[k] # "absent" THEN kwargs[k] ELSE @[k]]]

\* Span.set_tokens(count, cost=None): the cost is assigned only when given.
set_tokens(s, count, cost) ==
    [s EXCEPT !.tokens = count, !.cost = IF cost # PyNone THEN cost ELSE @]

\* An Optional[int] argument: <<>> is None, <<n>> the int n.  `v or 0`, and the
\* value as an attribute map holds it.
Or0(v) == IF v = <<>> THEN 0 ELSE v[1]
Repr(v) == IF v = <<>> THEN "None" ELSE ToString(v[1])

\* GlobalTracer.set_span_tokens(prompt_tokens, completion_tokens) on the
\* current span s: three attributes, and span._tokens = total.
set_span_tokens(s, prompt, completion) ==
    LET total == Or0(prompt) + Or0(completion) IN
    [set_attributes(s, [k \in AttrKeys |->
                          CASE k = "tokens.prompt" -> Repr(prompt)
                            [] k = "tokens.completion" -> Repr(completion)
                            [] k = "tokens.total" -> ToString(total)
                            [] OTHER -> "absent"])
        EXCEPT !.tokens = PyInt(ToString(total))]

\* GlobalTracer.set_span_cost(cost) on the current span s: the attribute
\* "cost", and span._cost = cost.
set_span_cost(s, cost) ==
    [set_attributes(s, [k \in AttrKeys |-> IF k = "cost" THEN cost ELSE "absent"])
        EXCEPT !.cost = PyFloat(cost)]

\* GlobalTracer.set_trace_attributes(attributes) on the current trace context
\* t: trace_ctx.attributes.update(attributes).
set_trace_attributes(t, kwargs) ==
    [t EXCEPT !.attributes =
        [k \in AttrKeys |-> IF kwargs[k] # "absent" THEN kwargs[k] ELSE @[k]]]

\* Span.add_event(name, **attributes): a SpanEvent stamped with the time of the
\* call is appended.
add_event(s, name, attributes) ==
    [s EXCEPT !.events =
        Append(@, [name |-> name, timestamp |-> clock, attributes |-> attributes])]

\* What the validation of a SpanData field raises for a value it cannot take.
ValidationError == [type |-> "ValidationError", val |-> "tokens"]

\* The integral floats among the values, with the int they stand for.
WholeFloats == {"42.0"}
IntOfFloat(val) == IF val = "42.0" THEN "42" ELSE "none"

\* Strings that are the decimal form of an int.
DigitStrings == {"42"}

\* SpanData.tokens is Optional[int]: the model's validation keeps None and an
\* int, turns a string of digits and a float without fractional part into the
\* int, and refuses any other value.
IntField(v) ==
    CASE v.type \in {"NoneType", "int"} -> v
      [] v.type = "str" /\ v.val \in DigitStrings -> PyInt(v.val)
      [] v.type = "float" /\ v.val \in WholeFloats -> PyInt(IntOfFloat(v.val))
      [] OTHER -> ValidationError

\* SpanData.cost is Optional[float]: None and a float are kept.
FloatField(v) ==
    CASE v.type \in {"NoneType", "float"} -> v
      [] OTHER -> ValidationError

\* SpanData(...) can be built from the span s.
Validates(s) == IntField(s.tokens) # ValidationError /\ FloatField(s.cost) # ValidationError

\* Mutant of to_data: the events are left out of the snapshot.
to_data_NoEvents(s, i) ==
    [span_id |-> i, trace_id |-> s.trace, parent_id |-> s.parent, name |-> s.name,
     span_type |-> s.type, status |-> s.status, start_time |-> s.start,
     end_time |-> s.end_time, duration_ms |-> s.duration, attributes |-> s.attributes,
     events |-> <<>>, input |-> s.input, output |-> s.output, error |-> s.error,
     tokens |-> IntField(s.tokens), cost |-> FloatField(s.cost)]

\* Span.to_data() of the span s whose id is i: the SpanData built from its
\* fields; trace_id and parent_id are read through the trace context and the
\* parent.
to_data(s, i) ==
    [span_id |-> i, trace_id |-> s.trace, parent_id |-> s.parent, name |-> s.name,
     span_type |-> s.type, status |-> s.status, start_time |-> s.start,
     end_time |-> s.end_time, duration_ms |-> s.duration, attributes |-> s.attributes,
     events |-> s.events, input |-> s.input, output |-> s.output, error |-> s.error,
     tokens |-> IntField(s.tokens), cost |-> FloatField(s.cost)]

\* The status Span.end leaves: `if status:` (every SpanStatus is a non-empty
\* string, hence true), `elif self._status == RUNNING`.  arg is "none" when end
\* is called without a status.
EndStatus(cur, arg) ==
    IF arg # "none" THEN arg
    ELSE IF cur = "running" THEN "success"
    ELSE cur

\* Mutant of end: without a status argument the span always ends as success.
end_AlwaysSuccess(s, arg) ==
    [s EXCEPT !.end_time = clock,
              !.duration = clock - s.start,
              !.status = IF arg # "none" THEN arg ELSE "success",
              !.sent = @ + 1]

\* Span.end(status): end time, duration from the start marker, the status, and
\* _on_span_end, which hands one snapshot to Client.send unless to_data raises
\* (end is then left by that exception).
end(s, arg) ==
    [s EXCEPT !.end_time = clock,
              !.duration = clock - s.start,
              !.status = EndStatus(s.status, arg),
              !.sent = IF Validates(s) THEN @ + 1 ELSE @]

\* Mutant of SpanExit: the exception is not recorded before the span ends.
SpanExit_NoSetError(s, exc) == end(s, "none")

\* Span.__exit__(exc_type, exc_val, exc_tb); exc is "none" for a normal exit.
\* It returns None, so that the exception is not suppressed.
SpanExit(s, exc) ==
    IF exc # "none" THEN end(set_error(s, Str(exc)), "none") ELSE end(s, "none")

\* ---------------------------------------------------------------- decorators
\* Ids are uuid4 strings, fresh at every creation: here the next unused number.
NextTraceId == Len(tr) + 1
NextSpanId == Len(sp) + 1

\* The values of the two context variables as execution e reads them.
Ambient(e) == <<ctx[e].trace, ctx[e].span>>

\* Execution e can call a decorated function now.
CanCall(e) == live[e] # "no" /\ Len(stack[e]) < MaxDepth

\* Execution e is inside a trace-decorated function it entered itself.
InOwnTrace(e) == \E i \in 1..Len(stack[e]) : stack[e][i].kind = "trace"

\* Mutant of WrapperOutcome: the wrapper swallows the outcome and returns None.
WrapperOutcome_ReturnsNone(out) == [kind |-> "return", val |-> "None"]

\* What a wrapper hands to its caller when the wrapped function ended with
\* out: `return result`, or `raise` of the exception being handled.
WrapperOutcome(out) == out

\* The application assigns a Client to the global tracer.  (configure builds
\* its Config with a project_id keyword, see TraceCall.)
InstallClient ==
    /\ tclient = "none"
    /\ tclient' = "client"
    /\ UNCHANGED <<live, ctx, stack, tr, sp, clock, nops>>
    /\ UNCHANGED <<core, hist>>

\* Execution e calls a trace-decorated function, up to the call of func.
\* _ensure_configured calls configure() when there is no Client, and configure
\* calls Config(base_url=, api_key=, project_id=): Config has no such field, so
\* that the dataclass __init__ raises TypeError before anything is assigned and
\* the wrapper is left by that exception.  With a Client: a fresh trace id, a
\* new _TraceContext, _current_trace.set(context).
TraceCall(e) ==
    /\ CanCall(e)
    /\ IF tclient = "none"
       THEN UNCHANGED <<ctx, stack, tr>>
       ELSE /\ NextTraceId <= MaxIds
            /\ tr' = Append(tr, NewTraceCtx(e))
            /\ ctx' = [ctx EXCEPT ![e].trace = NextTraceId]
            /\ stack' = [stack EXCEPT ![e] = Append(@,
                            [kind |-> "trace", obj |-> NextTraceId,
                             tok |-> ctx[e].trace, entry |-> Ambient(e)])]
    /\ UNCHANGED <<tclient, live, sp, clock, nops>>
    /\ UNCHANGED <<core, hist>>

\* Mutant of SpanCall: the parent is the root span of the trace, not the
\* current span.
SpanCall_ParentIsRoot(e) ==
    /\ CanCall(e)
    /\ IF ctx[e].trace = 0
       THEN /\ stack' = [stack EXCEPT ![e] = Append(@,
                            [kind |-> "plain", obj |-> 0, tok |-> 0,
                             entry |-> Ambient(e)])]
            /\ UNCHANGED <<ctx, tr, sp>>
       ELSE /\ NextSpanId <= MaxIds
            /\ sp' = Append(sp,
                        NewSpanObj(e, ctx[e].trace,
                                   IF tr[ctx[e].trace].spans = <<>> THEN 0
                                   ELSE tr[ctx[e].trace].spans[1]))
            /\ tr' = [tr EXCEPT ![ctx[e].trace] = _register_span(@, NextSpanId)]
            /\ ctx' = [ctx EXCEPT ![e].span = NextSpanId]
            /\ stack' = [stack EXCEPT ![e] = Append(@,
                            [kind |-> "span", obj |-> NextSpanId,
                             tok |-> ctx[e].span, entry |-> Ambient(e)])]
    /\ UNCHANGED <<tclient, live, clock, nops>>
    /\ UNCHANGED <<core, hist>>

\* Execution e calls a span-decorated function (span, tool or llm: the last two
\* are span with a type), up to the call of func.  Without a current trace func
\* is called directly.  Otherwise: parent = _current_span.get(), a new Span with
\* that parent, _register_span, _current_span.set(span), span.__enter__().
SpanCall(e) ==
    /\ CanCall(e)
    /\ IF ctx[e].trace = 0
       THEN /\ stack' = [stack EXCEPT ![e] = Append(@,
                            [kind |-> "plain", obj |-> 0, tok |-> 0,
                             entry |-> Ambient(e)])]
            /\ UNCHANGED <<ctx, tr, sp>>
       ELSE /\ NextSpanId <= MaxIds
            /\ sp' = Append(sp, NewSpanObj(e, ctx[e].trace, ctx[e].span))
            /\ tr' = [tr EXCEPT ![ctx[e].trace] = _register_span(@, NextSpanId)]
            /\ ctx' = [ctx EXCEPT ![e].span = NextSpanId]
            /\ stack' = [stack EXCEPT ![e] = Append(@,
                            [kind |-> "span", obj |-> NextSpanId,
                             tok |-> ctx[e].span, entry |-> Ambient(e)])]
    /\ UNCHANGED <<tclient, live, clock, nops>>
    /\ UNCHANGED <<core, hist>>

\* The span wrapper after func: on return span.__exit__(None, None, None); in
\* `except Exception` span.set_error(str(e)) and span.__exit__ with the
\* exception; an exception that is not an Exception passes both.
SpanAfter(s, out) ==
    IF out.kind = "return" THEN SpanExit(s, "none")
    ELSE IF IsException(out.val) THEN SpanExit(set_error(s, Str(out.val)), out.val)
    ELSE s

\* Mutant of Restore: the finally clause is missing.
Restore_Nothing(c, f) == c

\* The finally clause of a wrapper whose frame is f: the context variable it
\* set is reset with its token, which restores the value the variable had.
Restore(c, f) ==
    CASE f.kind = "trace" -> [c EXCEPT !.trace = f.tok]
      [] f.kind = "span" -> [c EXCEPT !.span = f.tok]
      [] OTHER -> c

\* Mutant of TraceAfter: the error is recorded for no exception.
TraceAfter_NoRecord(t, out) == t

\* The trace wrapper after func: `except Exception as e:
\* context.attributes["error"] = str(e)`.
TraceAfter(t, out) ==
    IF out.kind = "raise" /\ IsException(out.val)
    THEN [t EXCEPT !.error = Str(out.val)]
    ELSE t

\* The function wrapped by the innermost decorated call of e ends with out, and
\* its wrapper runs to its end.
BodyEnd(e, out) ==
    /\ stack[e] # <<>>
    /\ LET f == stack[e][Len(stack[e])] IN
       /\ tr' = IF f.kind = "trace"
                THEN [tr EXCEPT ![f.obj] = TraceAfter(@, out)] ELSE tr
       /\ sp' = IF f.kind = "span"
                THEN [sp EXCEPT ![f.obj] = SpanAfter(@, out)] ELSE sp
       /\ ctx' = [ctx EXCEPT ![e] = Restore(@, f)]
       /\ stack' = [stack EXCEPT ![e] = SubSeq(@, 1, Len(@) - 1)]
    /\ UNCHANGED <<tclient, live, clock, nops>>
    /\ UNCHANGED <<core, hist>>

\* Execution e starts as a thread: a new thread has an empty Context, in which
\* both context variables have their default, None.
StartThread(e) ==
    /\ live[e] = "no"
    /\ live' = [live EXCEPT ![e] = "thread"]
    /\ ctx' = [ctx EXCEPT ![e] = [trace |-> 0, span |-> 0]]
    /\ UNCHANGED <<tclient, stack, tr, sp, clock, nops>>
    /\ UNCHANGED <<core, hist>>

\* Execution e starts as a task created by execution c (asyncio.create_task,
\* loop.call_soon, copy_context().run): it runs in a copy of the Context of its
\* creator, taken at the creation.
StartTask(e, c) ==
    /\ live[e] = "no"
    /\ live[c] # "no"
    /\ live' = [live EXCEPT ![e] = "task"]
    /\ ctx' = [ctx EXCEPT ![e] = ctx[c]]
    /\ UNCHANGED <<tclient, stack, tr, sp, clock, nops>>
    /\ UNCHANGED <<core, hist>>

\* History of a trace-decorated call of e that configure() ended: func did not
\* run, the wrapper raised TypeError.
FailedCall(e) ==
    [kind |-> "trace", obj |-> 0, entry |-> Ambient(e),
     exit |-> <<ctx'[e].trace, ctx'[e].span>>, runs |-> 0, fout |-> NoOutcome,
     wout |-> [kind |-> "raise", val |-> "TypeError"]]

\* History of the decorated call of e that BodyEnd completes: the ambient
\* values at its entry and at its exit, how func ended and how the wrapper did.
CompletedCall(e, out) ==
    LET f == stack[e][Len(stack[e])] IN
    [kind |-> f.kind, obj |-> f.obj, entry |-> f.entry,
     exit |-> <<ctx'[e].trace, ctx'[e].span>>, runs |-> 1,
     fout |-> out, wout |-> WrapperOutcome(out)]

\* The decorator API used by one execution, with the history of its calls.
NextDeco ==
    \/ InstallClient /\ UNCHANGED <<last, lastop>>
    \/ /\ TraceCall("x")
       /\ last' = IF tclient = "none" THEN [last EXCEPT !["x"] = FailedCall("x")]
                  ELSE last
       /\ UNCHANGED lastop
    \/ SpanCall("x") /\ UNCHANGED <<last, lastop>>
    \/ \E out \in Outcomes :
          /\ BodyEnd("x", out)
          /\ last' = [last EXCEPT !["x"] = CompletedCall("x", out)]
          /\ UNCHANGED lastop

SpecDeco == InitNetworkBacked /\ [][NextDeco]_vars

\* The decorator API used by two logical executions that run concurrently.
NextConc ==
    \/ InstallClient /\ UNCHANGED <<last, lastop>>
    \/ \E e \in Executions : TraceCall(e) /\ UNCHANGED <<last, lastop>>
    \/ \E e \in Executions : SpanCall(e) /\ UNCHANGED <<last, lastop>>
    \/ \E e \in Executions : \E out \in Outcomes :
          BodyEnd(e, out) /\ UNCHANGED <<last, lastop>>
    \/ \E e \in Executions : StartThread(e) /\ UNCHANGED <<last, lastop>>
    \/ \E e \in Executions : \E c \in Executions :
          StartTask(e, c) /\ UNCHANGED <<last, lastop>>

SpecConc == InitNetworkBacked /\ [][NextConc]_vars


\* ---------------------------------------------------------------- C11
\* The span-decorated calls of e in progress that e made inside a
\* trace-decorated function of its own: positions in stack[e].
OwnSpanFrames(e) ==
    {j \in 1..Len(stack[e]) :
        /\ stack[e][j].kind = "span"
        /\ \E i \in 1..(j - 1) : stack[e][i].kind = "trace"}

\* C11 as stated: an execution inside its own trace-decorated function reads a
\* current trace and a current span that are its own, and a span it creates
\* there is registered in its own trace context only and has no parent from
\* another execution, whether the executions are threads or tasks.
C11_ExecutionsIsolated ==
    \A e \in Executions :
        /\ InOwnTrace(e) =>
              /\ tr[ctx[e].trace].owner = e
              /\ ctx[e].span # 0 => sp[ctx[e].span].owner = e
        /\ \A j \in OwnSpanFrames(e) :
              LET s == sp[stack[e][j].obj] IN
              /\ tr[s.trace].owner = e
              /\ \A t \in DOMAIN tr :
                    stack[e][j].obj \in Range(tr[t].spans) => tr[t].owner = e
              /\ s.parent # 0 => sp[s.parent].owner = e

\* ---------------------------------------------------------------- C12
\* C12: when a trace-decorated or span-decorated call has completed, by
\* returning or by raising, the current trace and the current span are what
\* they were immediately before the call, at every depth of nesting.
C12_AmbientRestored ==
    \A e \in Executions :
        last[e].kind # "none" => last[e].exit = last[e].entry

\* A span-decorated call nested in a traced call and in another span has raised
\* and left the enclosing span current.
C12_Witness ==
    /\ last["x"].kind = "span"
    /\ last["x"].wout.kind = "raise"
    /\ last["x"].entry[1] # 0
    /\ last["x"].entry[2] # 0
    /\ stack["x"] # <<>>

\* ---------------------------------------------------------------- C13
\* The span of the nearest span-decorated call in progress that encloses
\* position j of stack[e]; 0 when there is none.
EnclosingSpan(e, j) ==
    LET below == {i \in 1..(j - 1) : stack[e][i].kind = "span"} IN
    IF below = {} THEN 0
    ELSE stack[e][CHOOSE i \in below : \A k \in below : k <= i].obj

\* C13: a span created by the span decorator has as parent the span that was
\* current when the wrapper was entered, which is the span of the immediately
\* enclosing span-decorated call, and no parent when there was none; while the
\* wrapped function runs the new span is the current span.
C13_ParentIsEnclosingSpan ==
    \A j \in 1..Len(stack["x"]) :
        stack["x"][j].kind = "span" =>
            /\ sp[stack["x"][j].obj].parent = stack["x"][j].entry[2]
            /\ sp[stack["x"][j].obj].parent = EnclosingSpan("x", j)
            /\ EnclosingSpan("x", Len(stack["x"]) + 1) = ctx["x"].span

\* Two nested span-decorated calls in progress: the inner span is current and
\* its parent is the outer span.
C13_Witness ==
    /\ Len(stack["x"]) >= 2
    /\ stack["x"][Len(stack["x"])].kind = "span"
    /\ stack["x"][Len(stack["x"]) - 1].kind = "span"
    /\ sp[ctx["x"].span].parent = stack["x"][Len(stack["x"]) - 1].obj

\* ---------------------------------------------------------------- C14
\* Execution e enters a span-decorated function with no current trace in this step.
EntersUntraced(e) ==
    /\ ctx[e].trace = 0
    /\ Len(stack'[e]) = Len(stack[e]) + 1
    /\ stack'[e][Len(stack'[e])].kind # "trace"

\* Execution e leaves such a call in this step.
LeavesUntraced(e) ==
    /\ stack[e] # <<>>
    /\ stack[e][Len(stack[e])].kind = "plain"
    /\ Len(stack'[e]) = Len(stack[e]) - 1

\* C14: a span-decorated function called with no active trace runs once, its
\* result or exception is what the caller gets, no span is created, nothing is
\* registered or sent, and the ambient state is untouched.
C14_UntracedPassthrough ==
    [][\A e \in Executions :
          /\ EntersUntraced(e) =>
                /\ stack'[e][Len(stack'[e])].kind = "plain"
                /\ sp' = sp /\ tr' = tr /\ ctx' = ctx
          /\ LeavesUntraced(e) =>
                /\ sp' = sp /\ tr' = tr /\ ctx' = ctx
                /\ last'[e].runs = 1
                /\ last'[e].wout = last'[e].fout
                /\ last'[e].exit = last'[e].entry]_vars

\* A span-decorated function called without a trace has raised to its caller.
C14_Witness ==
    /\ last["x"].kind = "plain"
    /\ last["x"].wout.kind = "raise"
    /\ sp = <<>>

\* ---------------------------------------------------------------- C15
\* C15 as stated: a trace-decorated call made when the global tracer has no
\* Client builds a default Client, installs a new trace context, invokes the
\* wrapped function and hands its result to the caller: the function has run
\* once and the caller gets what it ended with.
C15_AutoConfigures ==
    \A e \in Executions :
        last[e].kind = "trace" =>
            /\ last[e].runs = 1
            /\ last[e].wout = last[e].fout

\* ---------------------------------------------------------------- C16
\* A trace-decorated call of e whose function raised has completed.
TracedCallRaised(e) == last[e].kind = "trace" /\ last[e].fout.kind = "raise"

\* What C16 promises of it: the same exception reaches the caller, its message
\* is in the trace context's attributes under 'error', the previous current
\* trace is back.
RaisedAndRecorded(e) ==
    /\ last[e].wout = last[e].fout
    /\ tr[last[e].obj].error = Str(last[e].fout.val)
    /\ last[e].exit = last[e].entry

\* C16 as stated: whenever the wrapped function raises.
C16_ErrorRecorded ==
    \A e \in Executions : TracedCallRaised(e) => RaisedAndRecorded(e)

\* C16 amended: whenever the wrapped function raises an exception derived from
\* Exception.
C16_ExceptionRecorded ==
    \A e \in Executions :
        (TracedCallRaised(e) /\ IsException(last[e].fout.val)) => RaisedAndRecorded(e)

\* A traced function nested in another trace has raised ValueError.
C16_Witness ==
    /\ TracedCallRaised("x")
    /\ last["x"].fout.val = "ValueError"
    /\ last["x"].entry[1] # 0


\* ---------------------------------------------------------------- spans held by the application
\* Tracer.trace(name): a new TraceContext with a fresh id.
NewTrace ==
    /\ NextTraceId <= MaxIds
    /\ tr' = Append(tr, NewTraceCtx("x"))
    /\ UNCHANGED <<tclient, live, ctx, stack, sp, clock, nops>>
    /\ UNCHANGED <<core, hist>>

\* Mutant of NewSpan: the new span is registered in the first trace context.
NewSpan_RegistersInFirst(t, p) ==
    /\ t \in DOMAIN tr
    /\ p # 0 => (p \in DOMAIN sp /\ sp[p].trace = t)
    /\ NextSpanId <= MaxIds
    /\ sp' = Append(sp, NewSpanObj("x", t, p))
    /\ tr' = [tr EXCEPT ![1] = _register_span(@, NextSpanId)]
    /\ UNCHANGED <<tclient, live, ctx, stack, clock, nops>>
    /\ UNCHANGED <<core, hist>>

\* Mutant of NewSpan: the new span is created without its parent.
NewSpan_Orphan(t, p) ==
    /\ t \in DOMAIN tr
    /\ p # 0 => (p \in DOMAIN sp /\ sp[p].trace = t)
    /\ NextSpanId <= MaxIds
    /\ sp' = Append(sp, NewSpanObj("x", t, 0))
    /\ tr' = [tr EXCEPT ![t] = _register_span(@, NextSpanId)]
    /\ UNCHANGED <<tclient, live, ctx, stack, clock, nops>>
    /\ UNCHANGED <<core, hist>>

\* Trace.span(name) on trace t (p = 0), or Span.span(name) on span p of trace
\* t: a new Span with that parent, registered in the trace context.
NewSpan(t, p) ==
    /\ t \in DOMAIN tr
    /\ p # 0 => (p \in DOMAIN sp /\ sp[p].trace = t)
    /\ NextSpanId <= MaxIds
    /\ sp' = Append(sp, NewSpanObj("x", t, p))
    /\ tr' = [tr EXCEPT ![t] = _register_span(@, NextSpanId)]
    /\ UNCHANGED <<tclient, live, ctx, stack, clock, nops>>
    /\ UNCHANGED <<core, hist>>

\* The application can perform one more operation on span i.
CanOperate(i) == i \in DOMAIN sp /\ nops < MaxOps

\* span.set_error(msg).
SetError(i, msg) ==
    /\ CanOperate(i)
    /\ sp' = [sp EXCEPT ![i] = set_error(@, msg)]
    /\ nops' = nops + 1
    /\ UNCHANGED <<tclient, live, ctx, stack, tr, clock>>
    /\ UNCHANGED <<core, hist>>

\* span.end() (arg = "none") or span.end(status).
End(i, arg) ==
    /\ CanOperate(i)
    /\ sp' = [sp EXCEPT ![i] = end(@, arg)]
    /\ clock' = clock + 1
    /\ nops' = nops + 1
    /\ UNCHANGED <<tclient, live, ctx, stack, tr>>
    /\ UNCHANGED <<core, hist>>

\* `with span:` is entered: __enter__ returns the span.
BlockEnter(i) ==
    /\ CanOperate(i)
    /\ ~sp[i].inblock
    /\ sp' = [sp EXCEPT ![i].inblock = TRUE]
    /\ nops' = nops + 1
    /\ UNCHANGED <<tclient, live, ctx, stack, tr, clock>>
    /\ UNCHANGED <<core, hist>>

\* The exception a block outcome carries into __exit__; "none" on a normal exit.
ExcOf(out) == IF out.kind = "raise" THEN out.val ELSE "none"

\* The with-block on span i is left with outcome out: __exit__.
BlockExit(i, out) ==
    /\ CanOperate(i)
    /\ sp[i].inblock
    /\ sp' = [sp EXCEPT ![i] = [SpanExit(@, ExcOf(out)) EXCEPT !.inblock = FALSE]]
    /\ clock' = clock + 1
    /\ nops' = nops + 1
    /\ UNCHANGED <<tclient, live, ctx, stack, tr>>
    /\ UNCHANGED <<core, hist>>

\* Span.__exit__ returns None: the with statement re-raises the exception.
ExitSuppresses == FALSE

\* History of an operation on span i: the span as it was before it.
Operation(name, i, arg) ==
    [op |-> name, span |-> i, arg |-> arg, before |-> sp[i],
     propagated |-> (name = "exit" /\ arg # "none" /\ ~ExitSuppresses)]

\* The statuses that can be passed to end, and "none" for no argument.
EndArgs == {"none", "running", "success", "error"}

\* An application that creates one trace through Tracer.trace, spans in it,
\* and uses them directly.
NextSpan ==
    \/ NextTraceId = 1 /\ NewTrace /\ UNCHANGED <<last, lastop>>
    \/ \E t \in 1..MaxIds : \E p \in 0..MaxIds :
          NewSpan(t, p) /\ UNCHANGED <<last, lastop>>
    \/ \E i \in 1..MaxIds :
          /\ SetError(i, "failed")
          /\ lastop' = Operation("set_error", i, "failed")
          /\ UNCHANGED last
    \/ \E i \in 1..MaxIds : \E arg \in EndArgs :
          /\ End(i, arg)
          /\ lastop' = Operation("end", i, arg)
          /\ UNCHANGED last
    \/ \E i \in 1..MaxIds : BlockEnter(i) /\ UNCHANGED <<last, lastop>>
    \/ \E i \in 1..MaxIds : \E out \in Outcomes :
          /\ BlockExit(i, out)
          /\ lastop' = Operation("exit", i, ExcOf(out))
          /\ UNCHANGED last

SpecSpan == InitNetworkBacked /\ [][NextSpan]_vars

\* The span the last operation was performed on, as it is now.
Operated == sp[lastop.span]

\* The span had been ended before the last operation on it.
WasEnded == lastop.before.end_time # -1

\* ---------------------------------------------------------------- C17
\* What holds after every end(): end time and duration are set, and an explicit
\* status is the status of the span.
EndedWithStatus ==
    /\ Operated.end_time # -1
    /\ Operated.duration # -1
    /\ lastop.arg # "none" => Operated.status = lastop.arg

ExitEndsSpan ==
    /\ Operated.sent = lastop.before.sent + 1
    /\ Operated.end_time # -1
    /\ lastop.arg # "none" =>
          /\ Operated.status = "error"
          /\ Operated.error = Str(lastop.arg)
          /\ lastop.propagated

\* C18 as stated: leaving a with-block by an exception marks the span error
\* with the message, ends it (one snapshot) and lets the exception propagate;
\* leaving it normally ends the span with status success.
C18_BlockExitEndsSpan ==
    lastop.op = "exit" =>
        /\ ExitEndsSpan
        /\ lastop.arg = "none" => Operated.status = "success"

\* C18 amended: the same, except that a normal exit ends the span with status
\* success only if the span was still running when the block was left; a status
\* that set_error or end gave it inside the block stays.
C18_BlockExitKeepsStatus ==
    lastop.op = "exit" =>
        /\ ExitEndsSpan
        /\ (lastop.arg = "none" /\ lastop.before.status = "running")
              => Operated.status = "success"
        /\ (lastop.arg = "none" /\ lastop.before.status # "running")
              => Operated.status = lastop.before.status

\* A with-block on a running span was left by an exception.
C18_Witness ==
    /\ lastop.op = "exit"
    /\ lastop.arg = "ValueError"
    /\ lastop.before.status = "running"
    /\ lastop.before.sent = 0
    /\ Operated.sent = 1

\* ---------------------------------------------------------------- C19
\* C19 as stated: once end() has set the status of a span to success or error,
\* no later set_error or end changes it.
C19_StatusTerminalOnce ==
    (lastop.op # "none" /\ WasEnded /\ lastop.before.status \in {"success", "error"})
        => Operated.status = lastop.before.status

\* ---------------------------------------------------------------- C20
\* C20 as stated: an end() on a span that was ended before does nothing: no
\* further snapshot goes to Client.send, end_time and duration_ms keep the
\* values of the first end().
C20_SecondEndIsNoOp ==
    (lastop.op = "end" /\ WasEnded) =>
        /\ Operated.sent = lastop.before.sent
        /\ Operated.end_time = lastop.before.end_time
        /\ Operated.duration = lastop.before.duration

\* ---------------------------------------------------------------- C29
\* C29 as stated: a flush drains only the snapshots that were in the queue when
\* its drain began; a snapshot a concurrent send enqueues during the drain is
\* not in its batch.  For the worker's flush the drain begins at the timer tick.
C29_DrainsOnlyQueuedAtStart ==
    pc[Worker] \in FlushPcs => Range(spans[Worker]) \subseteq Range(tickPending)

\* ---------------------------------------------------------------- _handle_response alone
\* HTTP status codes a response can carry.
MinStatus == 100
MaxStatus == 599
StatusCodes == MinStatus..MaxStatus

\* isinstance(e, c) for an exception of class e of vizpath/exceptions.py: every
\* class derives from VizpathError directly, and VizpathError from Exception.
IsInstance(e, c) ==
    \/ e = c
    \/ c = "VizpathError" /\ e \in VizpathErrors
    \/ c = "Exception"

\* Two exception classes can be told apart by an isinstance test.
Distinguishable(e1, e2) ==
    \E c \in VizpathErrors : IsInstance(e1, c) # IsInstance(e2, c)

\* History of a call of _handle_response on a response with the given status.
Handled(status) ==
    [op |-> "_handle_response", status |-> status, raised |-> _handle_response(status)]

\* _handle_response is applied to a response of any status; it changes nothing
\* in the Client.
NextResponse ==
    \E status \in StatusCodes :
        /\ lastop' = Handled(status)
        /\ UNCHANGED <<core, hist, tclient, live, ctx, stack, tr, sp, clock, nops, last>>

SpecResponse == InitNetworkBacked /\ [][NextResponse]_vars

\* ---------------------------------------------------------------- C27
\* The failure kinds of the response handling: authentication, rate limit,
\* server error, generic request failure.
FailureKinds == {"AuthenticationError", "RateLimitError", "ConnectionError", "VizpathError"}

\* C27: every status has exactly one outcome: 2xx is success, 401 an
\* authentication failure, 429 a rate-limit failure, a status >= 500 a server
\* error, any other non-2xx status a generic request failure; the four failure
\* kinds can be told apart.
C27_StatusOutcome ==
    /\ lastop.op = "_handle_response" =>
          /\ is_success(lastop.status) <=> lastop.raised = "none"
          /\ ~is_success(lastop.status) => lastop.raised \in FailureKinds
          /\ lastop.status = 401 <=> lastop.raised = "AuthenticationError"
          /\ lastop.status = 429 <=> lastop.raised = "RateLimitError"
          /\ lastop.status >= 500 <=> lastop.raised = "ConnectionError"
          /\ (~is_success(lastop.status) /\ lastop.status \notin {401, 429}
                  /\ lastop.status < 500)
                <=> lastop.raised = "VizpathError"
    /\ \A e1 \in FailureKinds : \A e2 \in FailureKinds \ {e1} : Distinguishable(e1, e2)

\* A 503 was answered and taken as a server error.
C27_Witness ==
    /\ lastop.op = "_handle_response"
    /\ lastop.status = 503
    /\ lastop.raised = "ConnectionError"

\* ---------------------------------------------------------------- Config
\* The arguments Config is constructed with: buffer_size, and flush_interval in
\* hundredths of a second.
MaxBufferSizeArg == 8
MaxFlushIntervalArg == 13
BufferSizeArgs == -2..MaxBufferSizeArg
FlushIntervalArgs == 0..MaxFlushIntervalArg

\* The least flush_interval __post_init__ accepts, 0.1 second, in hundredths.
MinFlushInterval == 10

\* Mutant of Config: a buffer_size below 1 is replaced by 1.
Config_ClampsBufferSize(buffer_size, flush_interval) ==
    IF flush_interval < MinFlushInterval
    THEN [raised |-> "ValueError",
          message |-> "flush_interval must be at least 0.1 seconds", obj |-> "none"]
    ELSE [raised |-> "none", message |-> "none",
          obj |-> [buffer_size |-> IF buffer_size < 1 THEN 1 ELSE buffer_size,
                   flush_interval |-> flush_interval]]

\* Config(buffer_size=, flush_interval=): the dataclass __init__ assigns the
\* fields and calls __post_init__, which raises ValueError for a buffer_size
\* below 1, then for a flush_interval below 0.1; an exception in __init__ leaves
\* the caller without an object.
Config(buffer_size, flush_interval) ==
    IF buffer_size < 1
    THEN [raised |-> "ValueError",
          message |-> "buffer_size must be at least 1", obj |-> "none"]
    ELSE IF flush_interval < MinFlushInterval
    THEN [raised |-> "ValueError",
          message |-> "flush_interval must be at least 0.1 seconds", obj |-> "none"]
    ELSE [raised |-> "none", message |-> "none",
          obj |-> [buffer_size |-> buffer_size, flush_interval |-> flush_interval]]

\* The setting an error message of __post_init__ names.
SettingNamed(message) ==
    CASE message = "buffer_size must be at least 1" -> "buffer_size"
      [] message = "flush_interval must be at least 0.1 seconds" -> "flush_interval"
      [] OTHER -> "none"

\* History of a construction of Config.
Constructed(buffer_size, flush_interval) ==
    [op |-> "Config", buffer_size |-> buffer_size, flush_interval |-> flush_interval,
     result |-> Config(buffer_size, flush_interval)]

\* The application constructs a Config with any buffer_size and flush_interval.
NextConfig ==
    \E buffer_size \in BufferSizeArgs : \E flush_interval \in FlushIntervalArgs :
        /\ lastop' = Constructed(buffer_size, flush_interval)
        /\ UNCHANGED <<core, hist, tclient, live, ctx, stack, tr, sp, clock, nops, last>>

SpecConfig == InitNetworkBacked /\ [][NextConfig]_vars

HasErrors(c) == \E k \in 1..Len(c.spans) : sp[c.spans[k]].status = "error"

\* Mutant of trace_end: the aggregate does not look at the spans.
trace_end_IgnoresSpans(c, arg) ==
    [c EXCEPT !.ended = TRUE,
              !.status = IF arg # "none" THEN arg
                         ELSE IF @ = "running" THEN "success" ELSE @]

\* Trace.end(status) on the context c (arg = "none" for no argument): the end
\* time is stamped; a status that is given is taken (every SpanStatus is a
\* non-empty string, so `if status:` holds for each); without one the aggregate
\* over the spans is computed only while the context is still running.
trace_end(c, arg) ==
    [c EXCEPT !.ended = TRUE,
              !.status = IF arg # "none" THEN arg
                         ELSE IF @ = "running"
                              THEN (IF HasErrors(c) THEN "error" ELSE "success")
                              ELSE @]

\* Trace.__exit__(exc_type, exc_val, exc_tb): an exception marks the context
\* failed, then end() is called without a status.
trace_exit(c, exc) ==
    trace_end([c EXCEPT !.status = IF exc # "none" THEN "error" ELSE @], "none")

\* trace.end() or trace.end(status) by the application.
TraceEnd(t, arg) ==
    /\ t \in DOMAIN tr
    /\ tr' = [tr EXCEPT ![t] = trace_end(@, arg)]
    /\ UNCHANGED <<tclient, live, ctx, stack, sp, clock, nops>>
    /\ UNCHANGED <<core, hist>>

\* `with trace:` is entered: __enter__ returns the trace.
TraceEnter(t) ==
    /\ t \in DOMAIN tr
    /\ ~tr[t].inblock
    /\ tr' = [tr EXCEPT ![t].inblock = TRUE]
    /\ UNCHANGED <<tclient, live, ctx, stack, sp, clock, nops>>
    /\ UNCHANGED <<core, hist>>

\* The with-block on trace t is left with outcome out: __exit__.
TraceExit(t, out) ==
    /\ t \in DOMAIN tr
    /\ tr[t].inblock
    /\ tr' = [tr EXCEPT ![t] = [trace_exit(@, ExcOf(out)) EXCEPT !.inblock = FALSE]]
    /\ UNCHANGED <<tclient, live, ctx, stack, sp, clock, nops>>
    /\ UNCHANGED <<core, hist>>

\* span.set_tokens(count) or span.set_tokens(count, cost).
SetTokens(i, count, cost) ==
    /\ CanOperate(i)
    /\ sp' = [sp EXCEPT ![i] = set_tokens(@, count, cost)]
    /\ nops' = nops + 1
    /\ UNCHANGED <<tclient, live, ctx, stack, tr, clock>>
    /\ UNCHANGED <<core, hist>>

\* History of an operation on trace t: the context as it was before it.
TraceOperation(name, t, arg) ==
    [op |-> name, trace |-> t, arg |-> arg, tbefore |-> tr[t]]

\* The statuses the scenario passes to Trace.end, and "none" for no argument.
TraceEndArgs == {"none", "success", "error"}

\* An application that opens one trace, creates spans under it (Trace.span,
\* Span.span), sets errors on them, ends them, and ends the trace directly or
\* through its with-block.
NextTrace ==
    \/ NextTraceId = 1 /\ NewTrace /\ UNCHANGED <<last, lastop>>
    \/ \E t \in 1..MaxIds : \E p \in 0..MaxIds :
          NewSpan(t, p) /\ UNCHANGED <<last, lastop>>
    \/ \E i \in 1..MaxIds :
          /\ SetError(i, "failed")
          /\ lastop' = Operation("set_error", i, "failed")
          /\ UNCHANGED last
    \/ \E i \in 1..MaxIds :
          /\ End(i, "none")
          /\ lastop' = Operation("end", i, "none")
          /\ UNCHANGED last
    \/ \E t \in 1..MaxIds : \E arg \in TraceEndArgs :
          /\ TraceEnd(t, arg)
          /\ lastop' = TraceOperation("trace_end", t, arg)
          /\ UNCHANGED last
    \/ \E t \in 1..MaxIds :
          /\ TraceEnter(t)
          /\ lastop' = TraceOperation("trace_enter", t, "none")
          /\ UNCHANGED last
    \/ \E t \in 1..MaxIds : \E out \in Outcomes :
          /\ TraceExit(t, out)
          /\ lastop' = TraceOperation("trace_exit", t, ExcOf(out))
          /\ UNCHANGED last

SpecTrace == InitNetworkBacked /\ [][NextTrace]_vars

\* The trace the last operation was performed on, as it is now.
OperatedTrace == tr[lastop.trace]

\* The aggregate over the spans registered to the context c.
Aggregate(c) == IF HasErrors(c) THEN "error" ELSE "success"

\* ---------------------------------------------------------------- C21
\* C21 as stated: after Trace.end() without a status the trace status is error
\* if a registered span has status error and success if none has.  Refuted: a
\* trace that is no longer running (ended before, or ended with an explicit
\* status) keeps its status.
C21_EndAggregates ==
    (lastop.op = "trace_end" /\ lastop.arg = "none")
        => OperatedTrace.status = Aggregate(OperatedTrace)

\* C21, amended: after Trace.end() without a status on a trace that was still
\* running the status is the aggregate (error if a registered span has status
\* error, success if none has), and on a trace that was not running the status
\* is kept; an explicit status becomes the status; leaving the with-block by an
\* exception yields error.  Every end marks the trace ended.
C21_EndAggregatesWhileRunning ==
    /\ (lastop.op = "trace_end" /\ lastop.arg = "none") =>
          /\ OperatedTrace.ended
          /\ OperatedTrace.status =
                IF lastop.tbefore.status = "running"
                THEN Aggregate(OperatedTrace) ELSE lastop.tbefore.status
    /\ (lastop.op = "trace_end" /\ lastop.arg # "none") =>
          /\ OperatedTrace.ended
          /\ OperatedTrace.status = lastop.arg
    /\ (lastop.op = "trace_exit" /\ lastop.arg # "none") =>
          /\ OperatedTrace.ended
          /\ OperatedTrace.status = "error"

\* A running trace with one failed span and one span that did not fail was
\* ended without a status.
C21_Witness ==
    /\ lastop.op = "trace_end"
    /\ lastop.arg = "none"
    /\ lastop.tbefore.status = "running"
    /\ Len(OperatedTrace.spans) = 2
    /\ sp[1].status = "error"
    /\ sp[2].status # "error"
    /\ OperatedTrace.status = "error"

\* ---------------------------------------------------------------- parent linkage
\* History: the span creations and the operations on spans so far, in order,
\* and the snapshots handed to Client.send so far, in order.
Log == IF "log" \in DOMAIN lastop THEN lastop.log ELSE <<>>
Handed == IF "handed" \in DOMAIN lastop THEN lastop.handed ELSE <<>>

\* The snapshots handed once the step's operation on span i is done: end hands
\* to_data() of the span as end leaves it.
HandedAfter(i) ==
    IF sp'[i].sent > sp[i].sent THEN Append(Handed, to_data(sp'[i], i)) ELSE Handed

\* One entry of the log: the call, the span it made or acted on, its argument
\* as a string, and for Span.span the span it was called on (0 otherwise).
Entry(name, i, arg, p) == [op |-> name, span |-> i, arg |-> arg, parent |-> p]

\* History of the creation of a span by Trace.span (p = 0) or by Span.span on
\* span p, of an operation on span i, and of an operation on trace t.
Creation(p) ==
    [op |-> "span", span |-> NextSpanId, arg |-> "none", before |-> sp'[NextSpanId],
     log |-> Append(Log, Entry(IF p = 0 THEN "Trace.span" ELSE "Span.span",
                               NextSpanId, "none", p)),
     handed |-> Handed]
SpanOperation(name, i, arg) ==
    [op |-> name, span |-> i, arg |-> arg, before |-> sp[i],
     log |-> Append(Log, Entry(name, i, arg, 0)),
     handed |-> HandedAfter(i)]
LoggedTraceOperation(name, t, arg) ==
    [op |-> name, trace |-> t, arg |-> arg, tbefore |-> tr[t],
     log |-> Log, handed |-> Handed]

\* An application that opens one trace, creates root-level spans and child
\* spans, sets token counts and errors, ends spans and ends the trace.
NextLink ==
    \/ NextTraceId = 1 /\ NewTrace /\ UNCHANGED <<last, lastop>>
    \/ \E t \in 1..MaxIds : \E p \in 0..MaxIds :
          /\ NewSpan(t, p)
          /\ lastop' = Creation(p)
          /\ UNCHANGED last
    \/ \E i \in 1..MaxIds :
          /\ SetError(i, "failed")
          /\ lastop' = SpanOperation("set_error", i, "failed")
          /\ UNCHANGED last
    \/ \E i \in 1..MaxIds :
          /\ SetTokens(i, PyInt("42"), PyNone)
          /\ lastop' = SpanOperation("set_tokens", i, "42")
          /\ UNCHANGED last
    \/ \E i \in 1..MaxIds :
          /\ End(i, "none")
          /\ lastop' = SpanOperation("end", i, "none")
          /\ UNCHANGED last
    \/ \E t \in 1..MaxIds :
          /\ TraceEnd(t, "none")
          /\ lastop' = LoggedTraceOperation("trace_end", t, "none")
          /\ UNCHANGED last

SpecLink == InitNetworkBacked /\ [][NextLink]_vars

\* The spans ended so far, in order of ending.
RECURSIVE EndedIn(_)
EndedIn(log) ==
    IF log = <<>> THEN <<>>
    ELSE IF log[1].op = "end" THEN <<log[1].span>> \o EndedIn(Tail(log))
         ELSE EndedIn(Tail(log))

\* The walkthrough: a root-level span, a child of it, 42 tokens on the child,
\* the child ended, the parent ended.
Walkthrough ==
    << Entry("Trace.span", 1, "none", 0),
       Entry("Span.span", 2, "none", 1),
       Entry("set_tokens", 2, "42", 0),
       Entry("end", 2, "none", 0),
       Entry("end", 1, "none", 0) >>

\* ---------------------------------------------------------------- C24
\* C24: a span made by Trace.span has no parent; a span made by parent.span has
\* the parent's id as parent_id and the parent's trace_id; the snapshots handed
\* to the Client are one per end, in order of ending, each carrying the
\* parent_id and trace_id of its span; and after the walkthrough followed by
\* Trace.end() exactly two snapshots were handed, the child's first with the
\* parent's id, the trace id and 42 tokens, the parent's second with no parent
\* and the same trace id, and the trace status is success.
C24_ParentLinkage ==
    /\ \A k \in 1..Len(Log) :
          /\ Log[k].op = "Trace.span" => sp[Log[k].span].parent = 0
          /\ Log[k].op = "Span.span" =>
                /\ sp[Log[k].span].parent = Log[k].parent
                /\ sp[Log[k].span].trace = sp[Log[k].parent].trace
    /\ Len(Handed) = Len(EndedIn(Log))
    /\ \A k \in 1..Len(Handed) :
          /\ Handed[k].span_id = EndedIn(Log)[k]
          /\ Handed[k].parent_id = sp[Handed[k].span_id].parent
          /\ Handed[k].trace_id = sp[Handed[k].span_id].trace
    /\ (Log = Walkthrough /\ lastop.op = "trace_end" /\ lastop.tbefore.status = "running") =>
          /\ Len(Handed) = 2
          /\ Handed[1].span_id = 2
          /\ Handed[1].parent_id = 1
          /\ Handed[1].trace_id = 1
          /\ Handed[1].tokens = PyInt("42")
          /\ Handed[2].span_id = 1
          /\ Handed[2].parent_id = 0
          /\ Handed[2].trace_id = 1
          /\ Handed[2].tokens = PyNone
          /\ tr[1].status = "success"

\* The walkthrough was performed and the trace then ended.
C24_Witness ==
    /\ Log = Walkthrough
    /\ lastop.op = "trace_end"
    /\ lastop.tbefore.status = "running"
    /\ Len(Handed) = 2
    /\ tr[1].ended

\* ---------------------------------------------------------------- registration
\* An application that opens traces through Tracer.trace and through the trace
\* decorator, and creates spans through Trace.span, Span.span and the span
\* decorator.
NextReg ==
    \/ InstallClient /\ UNCHANGED <<last, lastop>>
    \/ TraceCall("x") /\ UNCHANGED <<last, lastop>>
    \/ SpanCall("x") /\ UNCHANGED <<last, lastop>>
    \/ \E out \in Outcomes : BodyEnd("x", out) /\ UNCHANGED <<last, lastop>>
    \/ NewTrace /\ UNCHANGED <<last, lastop>>
    \/ \E t \in 1..MaxIds : \E p \in 0..MaxIds :
          NewSpan(t, p) /\ UNCHANGED <<last, lastop>>

SpecReg == InitNetworkBacked /\ [][NextReg]_vars

\* The positions of span i in the span list of context t.
PositionsIn(t, i) == {k \in 1..Len(tr[t].spans) : tr[t].spans[k] = i}

\* Sequence s is a prefix of sequence u.
IsPrefix(s, u) == Len(s) <= Len(u) /\ \A k \in 1..Len(s) : s[k] = u[k]

\* ---------------------------------------------------------------- C22
\* C22: every span in a trace context's span list reports a trace_id equal to
\* that context's trace id, and no span is in the span lists of two different
\* contexts.
C22_SpanBelongsToOneTrace ==
    /\ \A t \in DOMAIN tr : \A k \in 1..Len(tr[t].spans) :
          /\ tr[t].spans[k] \in DOMAIN sp
          /\ sp[tr[t].spans[k]].trace = t
    /\ \A t1 \in DOMAIN tr : \A t2 \in DOMAIN tr :
          t1 # t2 => Range(tr[t1].spans) \cap Range(tr[t2].spans) = {}

\* Two trace contexts each hold a span.
C22_Witness ==
    /\ Len(tr) = 2
    /\ tr[1].spans # <<>>
    /\ tr[2].spans # <<>>

\* ---------------------------------------------------------------- C23
\* C23: every span created is in its context's span list exactly once, from
\* its creation on; a step only appends to a span list (insertion order is
\* kept and the list never shrinks); the root span is the first span
\* registered and, once set, never changes.
C23_RegisteredOnceInOrder ==
    /\ [](\A i \in DOMAIN sp :
            /\ sp[i].trace \in DOMAIN tr
            /\ Cardinality(PositionsIn(sp[i].trace, i)) = 1)
    /\ [](\A t \in DOMAIN tr :
            tr[t].root = IF tr[t].spans = <<>> THEN 0 ELSE tr[t].spans[1])
    /\ [][\A t \in DOMAIN tr :
            /\ IsPrefix(tr[t].spans, tr'[t].spans)
            /\ Len(tr'[t].spans) <= Len(tr[t].spans) + 1
            /\ tr[t].root # 0 => tr'[t].root = tr[t].root
            /\ \A k \in (Len(tr[t].spans) + 1)..Len(tr'[t].spans) :
                  tr'[t].spans[k] \notin DOMAIN sp]_vars

\* One context holds two spans in the order of their creation, the first being
\* the root span.
C23_Witness ==
    \E t \in DOMAIN tr :
        /\ tr[t].spans = <<1, 2>>
        /\ tr[t].root = 1

\* ---------------------------------------------------------------- snapshot contents
\* trace.span(name, span_type) on trace t: a root-level span with that name and
\* type, registered in the trace context.
TraceSpan(t, name, type) ==
    /\ t \in DOMAIN tr
    /\ NextSpanId <= MaxIds
    /\ sp' = Append(sp, SpanInit("x", t, 0, name, type))
    /\ tr' = [tr EXCEPT ![t] = _register_span(@, NextSpanId)]
    /\ UNCHANGED <<tclient, live, ctx, stack, clock, nops>>
    /\ UNCHANGED <<core, hist>>

\* span.set_input(value), span.set_output(value).
SetInput(i, value) ==
    /\ CanOperate(i)
    /\ sp' = [sp EXCEPT ![i] = set_input(@, value)]
    /\ nops' = nops + 1
    /\ UNCHANGED <<tclient, live, ctx, stack, tr, clock>>
    /\ UNCHANGED <<core, hist>>

SetOutput(i, value) ==
    /\ CanOperate(i)
    /\ sp' = [sp EXCEPT ![i] = set_output(@, value)]
    /\ nops' = nops + 1
    /\ UNCHANGED <<tclient, live, ctx, stack, tr, clock>>
    /\ UNCHANGED <<core, hist>>

\* span.set_attributes(**kwargs).
SetAttributes(i, kwargs) ==
    /\ CanOperate(i)
    /\ sp' = [sp EXCEPT ![i] = set_attributes(@, kwargs)]
    /\ nops' = nops + 1
    /\ UNCHANGED <<tclient, live, ctx, stack, tr, clock>>
    /\ UNCHANGED <<core, hist>>

\* span.add_event(name, **attributes).
AddEvent(i, name, attributes) ==
    /\ CanOperate(i)
    /\ sp' = [sp EXCEPT ![i] = add_event(@, name, attributes)]
    /\ nops' = nops + 1
    /\ UNCHANGED <<tclient, live, ctx, stack, tr, clock>>
    /\ UNCHANGED <<core, hist>>

\* The arguments the scenario passes to the setters.
InputArgs == {"question"}
OutputArgs == {"answer"}
KwargsArgs ==
    { [k \in AttrKeys |-> IF k = "k1" THEN "v1" ELSE "absent"],
      [k \in AttrKeys |-> "v2"] }
EventNames == {"e1", "e2"}
\* Token counts: an int, a string of digits, a string that is no number.
TokenArgs == {PyInt("42"), PyStr("42"), PyStr("many")}
CostArgs == {PyNone, PyFloat("0.5")}
NameArgs == SpanNames
TypeArgs == SpanTypes \cap {"custom", "llm"}

\* One call in the log of the scenario: the method, the span, and its arguments
\* (value: the positional argument, kwargs: the keyword arguments, cost and
\* type: the second argument of set_tokens and of Trace.span).
Call(name, i, value, kwargs, cost, type) ==
    [op |-> name, span |-> i, value |-> value, kwargs |-> kwargs, cost |-> cost,
     type |-> type]

\* History of a call on span i: the span as it was, the calls so far and the
\* snapshots handed so far.
DataOperation(i, call) ==
    [op |-> call.op, span |-> i, value |-> call.value,
     before |-> sp[i], hbefore |-> Handed,
     log |-> Append(Log, call), handed |-> HandedAfter(i)]

\* An application that creates one span under a trace, gives it values through
\* the setters, and ends it.
NextData ==
    \/ NextTraceId = 1 /\ NewTrace /\ UNCHANGED <<last, lastop>>
    \/ \E name \in NameArgs : \E type \in TypeArgs :
          /\ NextSpanId = 1
          /\ TraceSpan(1, name, type)
          /\ lastop' = [op |-> "Trace.span", span |-> 1, value |-> name,
                        before |-> sp'[1], hbefore |-> <<>>,
                        log |-> <<Call("Trace.span", 1, name, NoAttributes, PyNone, type)>>,
                        handed |-> <<>>]
          /\ UNCHANGED last
    \/ \E i \in 1..MaxIds : \E v \in InputArgs :
          /\ SetInput(i, v)
          /\ lastop' = DataOperation(i, Call("set_input", i, v, NoAttributes, PyNone, ""))
          /\ UNCHANGED last
    \/ \E i \in 1..MaxIds : \E v \in OutputArgs :
          /\ SetOutput(i, v)
          /\ lastop' = DataOperation(i, Call("set_output", i, v, NoAttributes, PyNone, ""))
          /\ UNCHANGED last
    \/ \E i \in 1..MaxIds : \E kw \in KwargsArgs :
          /\ SetAttributes(i, kw)
          /\ lastop' = DataOperation(i, Call("set_attributes", i, "", kw, PyNone, ""))
          /\ UNCHANGED last
    \/ \E i \in 1..MaxIds : \E n \in EventNames : \E kw \in {NoAttributes} \cup KwargsArgs :
          /\ AddEvent(i, n, kw)
          /\ lastop' = DataOperation(i, Call("add_event", i, n, kw, PyNone, ""))
          /\ UNCHANGED last
    \/ \E i \in 1..MaxIds : \E count \in TokenArgs : \E cost \in CostArgs :
          /\ SetTokens(i, count, cost)
          /\ lastop' = DataOperation(i, Call("set_tokens", i, count, NoAttributes, cost, ""))
          /\ UNCHANGED last
    \/ \E i \in 1..MaxIds :
          /\ SetError(i, "failed")
          /\ lastop' = DataOperation(i, Call("set_error", i, "failed", NoAttributes, PyNone, ""))
          /\ UNCHANGED last
    \/ \E i \in 1..MaxIds :
          /\ End(i, "none")
          /\ lastop' = DataOperation(i, Call("end", i, "none", NoAttributes, PyNone, ""))
          /\ UNCHANGED last

SpecData == InitNetworkBacked /\ [][NextData]_vars

\* The positions in the log of the calls of method name on span i.
CallsOf(name, i) == {k \in 1..Len(Log) : Log[k].op = name /\ Log[k].span = i}

\* The greatest element of a non-empty set of numbers.
Latest(S) == CHOOSE k \in S : \A j \in S : j <= k

\* What the calls so far gave span i: the value of the last set_input and
\* set_output (None without one), the attribute map merged in call order, the
\* events in call order, the count of the last set_tokens and the last cost
\* that was not None.
GivenInput(i) ==
    IF CallsOf("set_input", i) = {} THEN "None"
    ELSE Log[Latest(CallsOf("set_input", i))].value
GivenOutput(i) ==
    IF CallsOf("set_output", i) = {} THEN "None"
    ELSE Log[Latest(CallsOf("set_output", i))].value
GivenAttributes(i) ==
    [key \in AttrKeys |->
        LET S == {k \in CallsOf("set_attributes", i) : Log[k].kwargs[key] # "absent"}
        IN  IF S = {} THEN "absent" ELSE Log[Latest(S)].kwargs[key]]
GivenEvents(i) ==
    LET calls == SelectSeq(Log, LAMBDA c : c.op = "add_event" /\ c.span = i)
    IN  [k \in 1..Len(calls) |-> [name |-> calls[k].value, attributes |-> calls[k].kwargs]]
GivenTokens(i) ==
    IF CallsOf("set_tokens", i) = {} THEN PyNone
    ELSE Log[Latest(CallsOf("set_tokens", i))].value
GivenCost(i) ==
    LET S == {k \in CallsOf("set_tokens", i) : Log[k].cost # PyNone}
    IN  IF S = {} THEN PyNone ELSE Log[Latest(S)].cost

\* The events of a snapshot without their timestamps.
EventsOf(d) == [k \in 1..Len(d.events) |->
                    [name |-> d.events[k].name, attributes |-> d.events[k].attributes]]

\* The snapshot d carries what the calls so far gave span i, with the span's
\* id, trace id, parent id, name, type and status.
CarriesGiven(d, i) ==
    /\ d.input = GivenInput(i)
    /\ d.output = GivenOutput(i)
    /\ d.attributes = GivenAttributes(i)
    /\ EventsOf(d) = GivenEvents(i)
    /\ d.tokens = GivenTokens(i)
    /\ d.cost = GivenCost(i)
    /\ d.span_id = i
    /\ d.trace_id = sp[i].trace
    /\ d.parent_id = sp[i].parent
    /\ d.name = Log[Latest(CallsOf("Trace.span", i))].value
    /\ d.span_type = Log[Latest(CallsOf("Trace.span", i))].type
    /\ d.status = sp[i].status

\* The last call was end() and it handed a snapshot.
EndHanded == lastop.op = "end" /\ Operated.sent = lastop.before.sent + 1

\* The values of the declared types: a token count that is an int or None, a
\* cost that is a float or None.
DeclaredTypes(i) ==
    /\ GivenTokens(i).type \in {"int", "NoneType"}
    /\ GivenCost(i).type \in {"float", "NoneType"}

\* ---------------------------------------------------------------- C25
\* C25 as stated: for any values given to the setters before end(), end() hands
\* a snapshot that contains exactly those values unmodified, with the span's
\* id, trace id, parent id, name, type and final status.  Refuted: a token
\* count given as the string "42" is in the snapshot as the int 42, and with a
\* count that is no number end() raises and hands nothing.
C25_SnapshotCarriesGiven ==
    lastop.op = "end" =>
        /\ EndHanded
        /\ CarriesGiven(Handed[Len(Handed)], lastop.span)

\* C25, amended: for values of the declared types given to set_input,
\* set_output, set_attributes, add_event and set_tokens before end(), end()
\* hands a snapshot that contains exactly those values unmodified (input,
\* output, the merged attribute map, the events in call order, tokens and
\* cost), with the span's id, trace id, parent id, name, type and final status.
C25_SnapshotCarriesDeclared ==
    (lastop.op = "end" /\ DeclaredTypes(lastop.span)) =>
        /\ EndHanded
        /\ CarriesGiven(Handed[Len(Handed)], lastop.span)

\* A span given attributes and then an event was ended.
C25_Witness ==
    /\ EndHanded
    /\ Len(Log) = 4
    /\ Log[2].op = "set_attributes"
    /\ Log[3].op = "add_event"
    /\ Handed[1].attributes # NoAttributes
    /\ Len(Handed[1].events) = 1

\* ---------------------------------------------------------------- C30
\* C30: set_error changes only the span's status (to error) and its error
\* message: end time, duration, attributes, events, input, output, tokens and
\* cost stay as they were, and nothing is handed to the Client.
C30_SetErrorFrame ==
    lastop.op = "set_error" =>
        /\ Operated = [lastop.before EXCEPT !.status = "error", !.error = lastop.value]
        /\ Operated.end_time = lastop.before.end_time
        /\ Operated.duration = lastop.before.duration
        /\ Handed = lastop.hbefore

\* set_error was called on a span that is not ended and has attributes and a
\* token count.
C30_Witness ==
    /\ lastop.op = "set_error"
    /\ lastop.before.end_time = -1
    /\ lastop.before.attributes # NoAttributes
    /\ lastop.before.tokens # PyNone
    /\ Operated.status = "error"
    /\ Operated.end_time = -1

\* ---------------------------------------------------------------- registry and exit hook
\* Number of clients the application constructs.
MaxClients == 3

\* What close() of a client can end with: it returns, or raises what
\* `self._client.close()` raises (AttributeError when another close cleared the
\* attribute, an OSError of the transport).
CloseErrors == {"AttributeError", "OSError"}
CloseOutcomes ==
    {[kind |-> "return", val |-> "None"]}
    \cup {[kind |-> "raise", val |-> v] : v \in CloseErrors}

RECURSIVE _cleanup_NoTry(_, _)
\* Mutant of _cleanup: close() is called outside a try statement.
_cleanup_NoTry(k, outs) ==
    IF k > Len(outs) THEN [called |-> <<>>, raised |-> "none"]
    ELSE IF outs[k].kind = "raise"
         THEN [called |-> <<k>>, raised |-> outs[k].val]
         ELSE LET rest == _cleanup_NoTry(k + 1, outs)
              IN  [called |-> <<k>> \o rest.called, raised |-> rest.raised]

RECURSIVE _cleanup(_, _)
\* _cleanup(), from the k-th registered client on, when close() of the i-th
\* ends with outs[i]: `for client in Client._instances: try: client.close()
\* except Exception: pass`.  The result is the clients close() was called on,
\* in order, and the exception that leaves the hook ("none" for none).
_cleanup(k, outs) ==
    IF k > Len(outs) THEN [called |-> <<>>, raised |-> "none"]
    ELSE IF outs[k].kind = "raise" /\ ~IsException(outs[k].val)
         THEN [called |-> <<k>>, raised |-> outs[k].val]
         ELSE LET rest == _cleanup(k + 1, outs)
              IN  [called |-> <<k>> \o rest.called, raised |-> rest.raised]

\* Client(c), for a further client: a network-backed client is registered
\* after _initialize; when _initialize raises (ok = FALSE) the constructor is
\* left by that exception before the registration.  The further clients' own
\* queues and threads are not followed.
Construct(c, ok) ==
    /\ instances' = IF NetworkBacked(c) /\ ok THEN Append(instances, c) ELSE instances
    /\ UNCHANGED <<config, buffer, shutdown, client, thread, pc, op, spans, rq, result,
                   nsent, outage, accepted, dropped>>
    /\ UNCHANGED <<hist, tclient, live, ctx, stack, tr, sp, clock, nops>>

\* The constructor returned a client.
Returned(c, ok) == ~NetworkBacked(c) \/ ok

\* The interpreter exits: _cleanup runs on the main thread once the
\* application's calls have returned; close() of the i-th registered client
\* ends with outs[i].  The first registered client is the one whose fields the
\* model follows when it is network-backed: its close() sets the shutdown flag,
\* joins the worker, which leaves its wait, flushes the empty queue, and closes
\* and clears the transport unless that raises; on a client that is closed
\* already it returns.
Cleanup(outs) ==
    /\ \A t \in Callers : pc[t] = "idle"
    /\ pc[Worker] \in {"w_wait", "w_done", "w_none"}
    /\ buffer = <<>>
    /\ IF NetworkBacked(config)
       THEN /\ client = "none" => outs[1].kind = "return"
            /\ shutdown' = TRUE
            /\ pc' = [pc EXCEPT ![Worker] = "w_done"]
            /\ op' = [op EXCEPT ![Worker] = "none"]
            /\ client' = IF client = "none" \/ outs[1].kind = "return"
                         THEN "none" ELSE "closed"
       ELSE UNCHANGED <<shutdown, pc, op, client>>
    /\ UNCHANGED <<config, buffer, thread, instances, spans, rq, result, nsent, outage,
                   accepted, dropped>>
    /\ UNCHANGED <<hist, tclient, live, ctx, stack, tr, sp, clock, nops>>

\* History: the Configs of the clients constructed so far, in order.
Made == IF "made" \in DOMAIN lastop THEN lastop.made ELSE <<config>>

\* An application that constructs clients, closes the first one or not, and
\* exits.
NextExit ==
    \/ \E c \in Configs : \E ok \in BOOLEAN :
          /\ Len(Made) < MaxClients
          /\ Construct(c, ok)
          /\ lastop' = [op |-> "Client", made |-> IF Returned(c, ok) THEN Append(Made, c)
                                                  ELSE Made]
          /\ UNCHANGED last
    \/ Close(Sender) /\ UNCHANGED <<hist, last, lastop>>
    \/ CloseJoin(Sender) /\ UNCHANGED <<hist, last, lastop>>
    \/ DrainEmpty(Sender, AnyPayload) /\ UNCHANGED <<hist, last, lastop>>
    \/ FlushRet(Sender) /\ UNCHANGED <<hist, last, lastop>>
    \/ CloseCheck(Sender) /\ UNCHANGED <<hist, last, lastop>>
    \/ CloseTransport(Sender) /\ UNCHANGED <<hist, last, lastop>>
    \/ CloseClear(Sender) /\ UNCHANGED <<hist, last, lastop>>
    \/ WorkerExit /\ UNCHANGED <<hist, last, lastop>>
    \/ \E outs \in [1..Len(instances) -> CloseOutcomes] :
          /\ Cleanup(outs)
          /\ lastop' = [op |-> "_cleanup", made |-> Made, outs |-> outs,
                        called |-> _cleanup(1, outs).called,
                        raised |-> _cleanup(1, outs).raised]
          /\ UNCHANGED last

SpecExit == Init /\ [][NextExit]_vars

\* ---------------------------------------------------------------- C28
\* C28: the registry holds every network-backed client that was constructed,
\* in every state from its construction on, and only those; when the exit hook
\* has run, close() was called on every registered client, once each, and no
\* exception left the hook, whatever close() raised on some of them.
C28_RegisteredAndClosedAtExit ==
    /\ instances = SelectSeq(Made, NetworkBacked)
    /\ lastop.op = "_cleanup" =>
          /\ lastop.called = [k \in 1..Len(instances) |-> k]
          /\ lastop.raised = "none"

\* The exit hook ran over three registered clients and close() raised on the
\* first and the second of them.
C28_Witness ==
    /\ lastop.op = "_cleanup"
    /\ Len(instances) = 3
    /\ lastop.outs[1].kind = "raise"
    /\ lastop.outs[2].kind = "raise"
    /\ lastop.called = <<1, 2, 3>>

\* ---------------------------------------------------------------- enabled, no API key
\* The operations of a Client built with enabled = True and no API key, on
\* every application thread, under every interleaving: there is no worker, and
\* a flush returns at its test of self._client.
NextKeyless ==
    \/ \E t \in Callers : Send(t) /\ UNCHANGED hist
    \/ \E t \in Callers : SendCheck(t) /\ UNCHANGED hist
    \/ \E t \in Callers : FlushCall(t) /\ UNCHANGED hist
    \/ \E t \in Callers : Close(t) /\ UNCHANGED hist
    \/ \E t \in Callers : CloseJoin(t) /\ UNCHANGED hist
    \/ \E t \in Callers : CloseCheck(t) /\ UNCHANGED hist
    \/ \E t \in Callers : FlushRet(t) /\ UNCHANGED hist

SpecKeyless == ClientInit([enabled |-> TRUE, api_key |-> FALSE]) /\ [][NextKeyless]_vars

\* ---------------------------------------------------------------- C31
\* C31: on a Client that is enabled and has no API key every send enqueues and
\* nothing drains: the queue holds exactly the snapshots passed to send so
\* far, in the order of the calls, whatever flush and close calls were made.
C31_KeylessQueueOnlyGrows ==
    /\ buffer = [i \in 1..nsent |-> i]
    /\ accepted = {}
    /\ dropped = {}
    /\ \A t \in Threads : spans[t] = <<>> /\ pc[t] \notin {"drain", "posting", "requeue"}

\* A flush called by the application returns while the queue holds every
\* snapshot sent, after a close.
C31_Witness ==
    /\ shutdown
    /\ nsent = MaxSends
    /\ Len(buffer) = MaxSends
    /\ \E t \in Callers : op[t] = "flush" /\ pc[t] = "flush_ret"

\* ---------------------------------------------------------------- C33
\* C33: in every state of a network-backed Client each snapshot accepted by
\* send is in exactly one place: the queue, the batch of one flush in progress,
\* the snapshots carried by a POST that returned success, or the snapshots a
\* failed flush discarded.  It is not twice in the queue, not in two batches,
\* not twice in one batch, and not both queued and in a batch.
C33_SnapshotsConserved ==
    NetworkBacked(config) =>
        /\ \A s \in 1..nsent : Places(s) = 1
        /\ \A t \in Threads : \A i \in (rq[t] + 1)..Len(spans[t]) :
              pc[t] \in {"drain", "posting", "requeue", "flush_raised"} =>
                  Count(SubSeq(spans[t], rq[t] + 1, Len(spans[t])), spans[t][i]) = 1

\* A flush is in the middle of putting a batch of two back: one snapshot is in
\* the queue again, the other still in the batch.
C33_Witness ==
    \E t \in Threads :
        /\ pc[t] = "requeue"
        /\ Len(spans[t]) = 2
        /\ rq[t] = 1
        /\ Len(buffer) = 1

\* ---------------------------------------------------------------- C36
\* C36: close() does not release the transport while a flush of the worker is
\* in progress: as long as the worker holds a batch it drained, the transport
\* is open.  Refuted: close() waits 2 seconds for the worker and then closes
\* and clears the transport although the worker is still inside its POST; the
\* request then fails and the batch is discarded, or put back into the queue
\* of a client that never flushes again.
C36_TransportHeldDuringWorkerFlush ==
    (op[Worker] = "loop" /\ pc[Worker] \in {"drain", "posting", "requeue"} /\ spans[Worker] # <<>>)
        => client = "open"

\* ---------------------------------------------------------------- after close
\* A close() of the network-backed client has returned: only close clears
\* self._client, as its last statement.
CloseReturned == NetworkBacked(config) /\ client = "none"

\* The batches of the requests in flight.
InFlight == UNION {Range(spans[t]) : t \in {u \in Threads : pc[u] = "posting"}}

\* What holds of every step taken after a close() has returned: the transport
\* stays cleared; no flush begins to drain, no request is issued, no close
\* reaches the statements that close and clear the transport; only the
\* requests already in flight deliver.
AfterCloseStep ==
    /\ CloseReturned'
    /\ \A t \in Threads :
          /\ pc'[t] = "drain" => pc[t] = "drain"
          /\ pc'[t] = "posting" => pc[t] = "posting"
          /\ pc'[t] = "close_close" => pc[t] = "close_close"
          /\ pc'[t] = "flush_raised" => pc[t] = "flush_raised"
    /\ accepted' \subseteq accepted \cup InFlight

\* ---------------------------------------------------------------- C37
\* C37 as stated: after close() has returned the queue only grows, no request
\* is issued, every later flush returns without draining and a second close()
\* changes nothing and raises nothing.  Refuted: a flush that was already in
\* its drain when close() returned takes a snapshot enqueued afterwards from
\* the queue (and discards it).
C37_QueueOnlyGrowsAfterClose ==
    [][CloseReturned => (AfterCloseStep /\ IsPrefix(buffer, buffer'))]_vars

\* C37, amended: after close() has returned no request is issued and no
\* snapshot passed to send afterwards is transmitted; every flush that begins
\* afterwards returns without draining, and a close() that begins afterwards
\* changes nothing and raises nothing; the queue only grows unless a flush
\* that was already in its drain when close() returned is still draining.
C37_NothingTransmittedAfterClose ==
    [][CloseReturned =>
          /\ AfterCloseStep
          /\ (\A t \in Threads : pc[t] # "drain") => IsPrefix(buffer, buffer')]_vars

\* After a close() has returned, with nothing else running, a snapshot was
\* sent and another close() is at its test of the transport.
C37_Witness ==
    /\ CloseReturned
    /\ pc[Worker] = "w_done"
    /\ \E t \in Callers :
          /\ op[t] = "close" /\ pc[t] = "close_check"
          /\ \A u \in Callers \ {t} : pc[u] = "idle"
    /\ buffer # <<>>

\* ---------------------------------------------------------------- C38
\* What the try block of _flush can raise besides a connect error, a request
\* timeout and a collector status failure: a read error in the middle of the
\* request, a payload without JSON form, a cleared or closed transport.
OtherErrors ==
    (TransportErrors \cup {"TypeError", "AttributeError", "RuntimeError"})
    \ ({"httpx.ConnectError", "httpx.TimeoutException"} \cup VizpathErrors)

\* C38: a flush whose serialization or POST fails with an error other than a
\* connect error, a request timeout or a collector status failure is handled
\* by the last except clause: the flush goes on to return, nothing of its
\* batch is put back into the queue or delivered, the whole batch is discarded.
C38_OtherErrorsDiscardBatch ==
    /\ \A e \in OtherErrors : FlushHandler(e) = "unexpected"
    /\ \A t \in Threads :
          result[t] = "unexpected" =>
              /\ pc[t] = "flush_ret"
              /\ rq[t] = 0
              /\ spans[t] # <<>>
              /\ \A s \in Range(spans[t]) :
                    s \in dropped /\ s \notin accepted /\ s \notin Range(buffer)

\* A flush on an open transport returns after such an error with a batch of two.
C38_Witness ==
    \E t \in Threads :
        /\ FlushReturns(t, "unexpected")
        /\ client = "open"
        /\ Len(spans[t]) = 2

\* ---------------------------------------------------------------- C34
\* C34: the parent of every span created through the decorators, when it has
\* one, is registered in the trace context the span itself is registered in.
C34_ParentInSameTrace ==
    \A i \in DOMAIN sp :
        sp[i].parent # 0 => sp[i].parent \in Range(tr[sp[i].trace].spans)

\* ---------------------------------------------------------------- C35
\* The span wrapper that created span i has returned or raised.
WrapperExited(i) ==
    \A e \in Executions : \A j \in 1..Len(stack[e]) :
        ~(stack[e][j].kind = "span" /\ stack[e][j].obj = i)

\* C35: every span created by the span decorator has been ended exactly once
\* when its wrapper has returned or raised, however the wrapped function
\* ended: it is not running any more and was sent once.
C35_EndedOnceOnExit ==
    \A i \in DOMAIN sp :
        WrapperExited(i) => sp[i].status # "running" /\ sp[i].sent = 1

\* ---------------------------------------------------------------- ambient helpers
\* Execution e can call one more helper of the global tracer.
CanHelp(e) == live[e] # "no" /\ nops < MaxOps

\* Mutant of SetSpanAttributes: the span that was created last is modified,
\* whether it is the current span or not.
SetSpanAttributes_LastSpan(e, kwargs) ==
    /\ CanHelp(e)
    /\ sp' = IF sp # <<>>
             THEN [sp EXCEPT ![Len(sp)] = set_attributes(@, kwargs)] ELSE sp
    /\ nops' = nops + 1
    /\ UNCHANGED <<tclient, live, ctx, stack, tr, clock>>
    /\ UNCHANGED <<core, hist>>

\* tracer.set_span_attributes(attributes) called by execution e:
\* span = _current_span.get(); if span is not None: span.set_attributes(...).
SetSpanAttributes(e, kwargs) ==
    /\ CanHelp(e)
    /\ sp' = IF ctx[e].span # 0
             THEN [sp EXCEPT ![ctx[e].span] = set_attributes(@, kwargs)] ELSE sp
    /\ nops' = nops + 1
    /\ UNCHANGED <<tclient, live, ctx, stack, tr, clock>>
    /\ UNCHANGED <<core, hist>>

\* tracer.set_span_tokens(prompt_tokens, completion_tokens) called by e.
SetSpanTokens(e, prompt, completion) ==
    /\ CanHelp(e)
    /\ sp' = IF ctx[e].span # 0
             THEN [sp EXCEPT ![ctx[e].span] = set_span_tokens(@, prompt, completion)]
             ELSE sp
    /\ nops' = nops + 1
    /\ UNCHANGED <<tclient, live, ctx, stack, tr, clock>>
    /\ UNCHANGED <<core, hist>>

\* tracer.set_span_cost(cost) called by e.
SetSpanCost(e, cost) ==
    /\ CanHelp(e)
    /\ sp' = IF ctx[e].span # 0
             THEN [sp EXCEPT ![ctx[e].span] = set_span_cost(@, cost)] ELSE sp
    /\ nops' = nops + 1
    /\ UNCHANGED <<tclient, live, ctx, stack, tr, clock>>
    /\ UNCHANGED <<core, hist>>

\* tracer.set_trace_attributes(attributes) called by e:
\* trace_ctx = _current_trace.get(); if trace_ctx is not None: update.
SetTraceAttributes(e, kwargs) ==
    /\ CanHelp(e)
    /\ tr' = IF ctx[e].trace # 0
             THEN [tr EXCEPT ![ctx[e].trace] = set_trace_attributes(@, kwargs)] ELSE tr
    /\ nops' = nops + 1
    /\ UNCHANGED <<tclient, live, ctx, stack, sp, clock>>
    /\ UNCHANGED <<core, hist>>

\* The arguments the application gives the helpers.
HelperAttrs == {[k \in AttrKeys |-> IF k = "k1" THEN "v1" ELSE "absent"]}
PromptArgs == {<<>>, <<2>>}
CompletionArgs == {<<3>>}
HelperCosts == {"0.5"}

\* History of a helper call: the helper, its caller and its arguments.
HelperCall(name, e, kwargs, prompt, completion, cost) ==
    [op |-> name, exec |-> e, kwargs |-> kwargs, prompt |-> prompt,
     completion |-> completion, cost |-> cost]

HelperOps ==
    {"set_span_attributes", "set_span_tokens", "set_span_cost", "set_trace_attributes"}

\* The decorator API and the helpers used by one execution, whose decorated
\* functions return and whose trace-decorated functions are called from
\* undecorated code.
NextAmbient ==
    \/ InstallClient /\ UNCHANGED <<last, lastop>>
    \/ stack["x"] = <<>> /\ TraceCall("x") /\ UNCHANGED <<last, lastop>>
    \/ SpanCall("x") /\ UNCHANGED <<last, lastop>>
    \/ \E out \in Returns : BodyEnd("x", out) /\ UNCHANGED <<last, lastop>>
    \/ \E kwargs \in HelperAttrs :
          /\ SetSpanAttributes("x", kwargs)
          /\ lastop' = HelperCall("set_span_attributes", "x", kwargs, <<>>, <<>>, "None")
          /\ UNCHANGED last
    \/ \E prompt \in PromptArgs : \E completion \in CompletionArgs :
          /\ SetSpanTokens("x", prompt, completion)
          /\ lastop' = HelperCall("set_span_tokens", "x", NoAttributes,
                                  prompt, completion, "None")
          /\ UNCHANGED last
    \/ \E cost \in HelperCosts :
          /\ SetSpanCost("x", cost)
          /\ lastop' = HelperCall("set_span_cost", "x", NoAttributes, <<>>, <<>>, cost)
          /\ UNCHANGED last
    \/ \E kwargs \in HelperAttrs :
          /\ SetTraceAttributes("x", kwargs)
          /\ lastop' = HelperCall("set_trace_attributes", "x", kwargs, <<>>, <<>>, "None")
          /\ UNCHANGED last

SpecAmbient == InitNetworkBacked /\ [][NextAmbient]_vars

\* ---------------------------------------------------------------- C32
\* This step is a call of one of the helpers.
HelperStep == nops' # nops /\ lastop'.op \in HelperOps

\* All spans but span i, and all trace contexts but t, are as they were.
OtherSpansKept(i) ==
    /\ DOMAIN sp' = DOMAIN sp
    /\ \A j \in DOMAIN sp \ {i} : sp'[j] = sp[j]
OtherTracesKept(t) ==
    /\ DOMAIN tr' = DOMAIN tr
    /\ \A u \in DOMAIN tr \ {t} : tr'[u] = tr[u]

\* What the helper named in the history did to the current span i.
SpanModified(i) ==
    LET c == lastop' IN
    /\ c.op = "set_span_attributes" =>
          \A k \in AttrKeys : c.kwargs[k] # "absent" =>
              sp'[i].attributes[k] = c.kwargs[k]
    /\ c.op = "set_span_tokens" =>
          /\ sp'[i].tokens = PyInt(ToString(Or0(c.prompt) + Or0(c.completion)))
          /\ sp'[i].attributes["tokens.prompt"] = Repr(c.prompt)
          /\ sp'[i].attributes["tokens.completion"] = Repr(c.completion)
          /\ sp'[i].attributes["tokens.total"] = sp'[i].tokens.val
    /\ c.op = "set_span_cost" =>
          /\ sp'[i].cost = PyFloat(c.cost)
          /\ sp'[i].attributes["cost"] = c.cost

\* C32: a helper modifies the current span (set_trace_attributes: the current
\* trace) of the calling execution when there is one, and nothing but it; when
\* there is none the call changes no state.
C32_HelpersActOnAmbient ==
    [][HelperStep =>
          LET e == lastop'.exec
              i == ctx[e].span
              t == ctx[e].trace IN
          /\ UNCHANGED <<core, tclient, live, ctx, stack, clock>>
          /\ IF lastop'.op = "set_trace_attributes"
             THEN /\ sp' = sp
                  /\ OtherTracesKept(t)
                  /\ t # 0 =>
                        \A k \in AttrKeys : lastop'.kwargs[k] # "absent" =>
                            tr'[t].attributes[k] = lastop'.kwargs[k]
             ELSE /\ tr' = tr
                  /\ OtherSpansKept(i)
                  /\ i # 0 => SpanModified(i)]_vars

\* A helper was called with no current span while a span exists, and another
\* was called inside a span-decorated function.
C32_Witness ==
    /\ lastop.op = "set_span_tokens"
    /\ lastop.prompt # <<>>
    /\ ctx["x"].span = 0
    /\ \E i \in DOMAIN sp : sp[i].attributes["k1"] = "v1" /\ sp[i].tokens = PyNone

\* ---------------------------------------------------------------- collector
\* The trace a snapshot belongs to: the application's traces have up to two
\* spans each, all without a parent span.
TraceOf(s) == (s + 1) \div 2

\* The INSERTs of one request violate a primary key: spans.id for a span that
\* is stored already or twice in the payload; traces.id when two spans of the
\* payload belong to a trace that was not stored when the request began
\* (get_or_create_trace queries the database, the session does not autoflush,
\* so each of them adds a new Trace row).
IntegrityError(db, payload) ==
    \/ \E i \in 1..Len(payload) : payload[i] \in db.spans
    \/ \E i, j \in 1..Len(payload) :
          /\ i < j
          /\ \/ payload[i] = payload[j]
             \/ /\ TraceOf(payload[i]) = TraceOf(payload[j])
                /\ TraceOf(payload[i]) \notin db.traces

\* ingest_spans(payload) on the database db: every span of the payload is added
\* to the session, with a new trace row when its trace is not stored; commit
\* writes them all or, on an IntegrityError, none (the session is closed without
\* a commit and the request is answered 500).  Success is answered 201.
ingest_spans(db, payload) ==
    IF IntegrityError(db, payload)
    THEN [db |-> db, status |-> 500]
    ELSE [db |-> [spans |-> db.spans \cup Range(payload),
                  traces |-> db.traces \cup {TraceOf(s) : s \in Range(payload)}],
          status |-> 201]

\* The request of thread t reaches the collector, which ingests its batch; the
\* client receives the response, or its timeout expires first.
Ingest(t) ==
    /\ pc[t] = "posting"
    /\ LET done == ingest_spans(rows, spans[t]) IN
       /\ rows' = done.db
       /\ \E r \in {[kind |-> "response", status |-> done.status],
                    [kind |-> "httpx.TimeoutException", status |-> 0]} :
             PostReturn(t, {r})

\* A client whose requests reach the collector of this repository or fail on
\* the way: one application thread sends, another calls Tracer.flush.
NextCollector ==
    \/ /\ Send(Sender)
       /\ UNCHANGED hist
    \/ \E t \in Callers : SendCheck(t) /\ UNCHANGED hist
    \/ FlushCall(Flusher) /\ UNCHANGED hist
    \/ \E t \in Callers : Drain(t) /\ UNCHANGED hist
    \/ \E t \in Callers : DrainEmpty(t, JsonPayload) /\ UNCHANGED hist
    \/ \E t \in Callers :
          /\ Ingest(t)
          /\ UNCHANGED <<handler, nposts, overlapped, concurrent, retried, tickPending, stolen,
                         joinTimedOut, posted>>
    \/ \E t \in Callers : PostReturn(t, TransientFailures) /\ UNCHANGED hist
    \/ \E t \in Callers : Requeue(t) /\ UNCHANGED hist
    \/ \E t \in Callers : FlushRet(t) /\ UNCHANGED hist

SpecCollector == InitNetworkBacked /\ [][NextCollector]_vars

\* ---------------------------------------------------------------- C39
\* C39: a batch that holds a span the collector has stored already is accepted
\* with its other spans stored: no flush discards a batch that holds a stored
\* span together with a span that is not stored.
C39_RedeliveryKeepsNewSpans ==
    \A t \in Threads :
        (/\ FlushReturns(t, "api_error")
         /\ \E s \in Range(spans[t]) : s \in rows.spans)
            => Range(spans[t]) \subseteq rows.spans

\* ---------------------------------------------------------------- LangChain adapter
\* The errors a chain run fails with.
ChainErrors == {"ValueError", "KeyboardInterrupt"}

\* _end_trace on the handler h, with the trace contexts trs and the spans spn as
\* the callback has left them: Trace.__exit__(None, None, None) on the active
\* trace, which is then forgotten with the map and the stack.
_end_trace(h, trs, spn) ==
    IF h.trace = 0 THEN [h |-> h, tr |-> trs]
    ELSE [h |-> [h EXCEPT !.trace = 0,
                          !.spans = [r \in RunIds |-> 0],
                          !.span_stack = <<>>],
          tr |-> [trs EXCEPT ![h.trace] =
                     [@ EXCEPT !.ended = TRUE, !.inblock = FALSE,
                               !.status =
                                   IF @ # "running" THEN @
                                   ELSE IF \E k \in 1..Len(trs[h.trace].spans) :
                                              spn[trs[h.trace].spans[k]].status = "error"
                                        THEN "error" ELSE "success"]]]

\* on_chain_start(serialized, inputs, run_id=run, parent_run_id=parent) (parent
\* 0: None): _get_or_create_trace, a span under the parent run's span when the
\* map has one and under the trace otherwise, set_input, __enter__, the span
\* stored in the map and pushed on the stack.
OnChainStart(run, parent) ==
    /\ handler.runs[run] = "new"
    /\ parent # 0 => handler.runs[parent] = "running"
    /\ LET t == IF handler.trace = 0 THEN NextTraceId ELSE handler.trace
           trs == IF handler.trace = 0
                  THEN Append(tr, [NewTraceCtx("x") EXCEPT !.inblock = TRUE])
                  ELSE tr
           p == IF parent # 0 THEN handler.spans[parent] ELSE 0
           ctxt == IF p # 0 THEN sp[p].trace ELSE t IN
       /\ sp' = Append(sp, [set_input(SpanInit("x", ctxt, p, "chain", "chain"), "question")
                               EXCEPT !.inblock = TRUE])
       /\ tr' = [trs EXCEPT ![ctxt] = _register_span(@, NextSpanId)]
       /\ handler' = [handler EXCEPT !.trace = t,
                                     !.spans[run] = NextSpanId,
                                     !.span_stack = Append(@, NextSpanId),
                                     !.runs[run] = "running"]
    /\ UNCHANGED <<tclient, live, ctx, stack, clock, nops, last, lastop>>
    /\ UNCHANGED <<core, nposts, overlapped, concurrent, retried, tickPending, stolen,
                   joinTimedOut, posted, rows>>

\* The common end of on_chain_end and on_chain_error for the run's span, which
\* the callback has ended as `ended`: the span is popped when it is on top of
\* the stack, and the trace ends when the stack is empty.
Finish(run, ended) ==
    LET span == handler.spans[run]
        spn == IF span # 0 THEN [sp EXCEPT ![span] = ended] ELSE sp
        top == IF handler.span_stack = <<>> THEN 0
               ELSE handler.span_stack[Len(handler.span_stack)]
        left == IF span # 0 /\ top = span
                THEN SubSeq(handler.span_stack, 1, Len(handler.span_stack) - 1)
                ELSE handler.span_stack
        h == [handler EXCEPT !.span_stack = left, !.runs[run] = "done"]
        done == IF left = <<>> THEN _end_trace(h, tr, spn) ELSE [h |-> h, tr |-> tr] IN
    /\ sp' = spn
    /\ tr' = done.tr
    /\ handler' = done.h

\* on_chain_end(outputs, run_id=run): set_output and __exit__(None, None, None)
\* on the run's span.
OnChainEnd(run) ==
    /\ handler.runs[run] = "running"
    /\ Finish(run, IF handler.spans[run] = 0 THEN NoOp
                   ELSE [SpanExit(set_output(sp[handler.spans[run]], "answer"), "none")
                            EXCEPT !.inblock = FALSE])
    /\ clock' = clock + 1
    /\ UNCHANGED <<tclient, live, ctx, stack, nops, last, lastop>>
    /\ UNCHANGED <<core, nposts, overlapped, concurrent, retried, tickPending, stolen,
                   joinTimedOut, posted, rows>>

\* on_chain_error(error, run_id=run): set_error(str(error)) and
\* __exit__(type(error), error, None) on the run's span.
OnChainError(run, error) ==
    /\ handler.runs[run] = "running"
    /\ Finish(run, IF handler.spans[run] = 0 THEN NoOp
                   ELSE [SpanExit(set_error(sp[handler.spans[run]], Str(error)), error)
                            EXCEPT !.inblock = FALSE])
    /\ clock' = clock + 1
    /\ UNCHANGED <<tclient, live, ctx, stack, nops, last, lastop>>
    /\ UNCHANGED <<core, nposts, overlapped, concurrent, retried, tickPending, stolen,
                   joinTimedOut, posted, rows>>

\* LangChain runs chains with the handler as a callback: a run starts at the
\* top level or under a run in progress, and every run that started finishes,
\* in any order.
NextChain ==
    \/ \E run \in RunIds : \E parent \in {0} \cup RunIds : OnChainStart(run, parent)
    \/ \E run \in RunIds : OnChainEnd(run)
    \/ \E run \in RunIds : \E error \in ChainErrors : OnChainError(run, error)

SpecChain == InitNetworkBacked /\ [][NextChain]_vars

\* ---------------------------------------------------------------- C40
\* Every chain run that was started has finished, and there was one.
AllRunsFinished ==
    /\ \E r \in RunIds : handler.runs[r] = "done"
    /\ \A r \in RunIds : handler.runs[r] # "running"

\* C40: once every started chain run has finished, in whatever order, the
\* handler holds no active trace and its span stack and run-id map are empty.
C40_HandlerResetWhenRunsFinished ==
    AllRunsFinished =>
        /\ handler.trace = 0
        /\ handler.span_stack = <<>>
        /\ \A r \in RunIds : handler.spans[r] = 0

====
